---- MODULE Spec2Model ----
(***************************************************************************)
(* A model of the opinion-sdk order pipeline: exact decimal arithmetic     *)
(* (src/sdk/utils.js), order parameter building and payload formatting     *)
(* (src/sdk/orderBuilder.js), order creation and EIP-712 signing           *)
(* (signer part of orderBuilder.js) and OpinionTradeSDK.createLimitOrder.  *)
(*                                                                         *)
(* JavaScript strings are modelled as sequences of one-character strings,  *)
(* so that split, padStart, padEnd, slice and the regular expressions of   *)
(* the source are computed character by character.  JavaScript BigInt      *)
(* values are modelled as sign + decimal digit sequence with schoolbook    *)
(* arithmetic, so that no machine-integer width limits the products.       *)
(***************************************************************************)
EXTENDS Integers, Sequences, FiniteSets, TLC

(***************************************************************************)
(* Bounds of the generated input domains.                                  *)
(***************************************************************************)
MaxIntDigits == 2
MaxFracDigits == 2
MaxPriceFracDigits == 3
ClockStart == 1499
MaxTicks == 1

(***************************************************************************)
(* Characters and strings.                                                 *)
(***************************************************************************)
AllDigits == {"0", "1", "2", "3", "4", "5", "6", "7", "8", "9"}

DigitVal(c) ==
  CASE c = "0" -> 0 [] c = "1" -> 1 [] c = "2" -> 2 [] c = "3" -> 3
    [] c = "4" -> 4 [] c = "5" -> 5 [] c = "6" -> 6 [] c = "7" -> 7
    [] c = "8" -> 8 [] c = "9" -> 9

DigitChar(n) ==
  CASE n = 0 -> "0" [] n = 1 -> "1" [] n = 2 -> "2" [] n = 3 -> "3"
    [] n = 4 -> "4" [] n = 5 -> "5" [] n = 6 -> "6" [] n = 7 -> "7"
    [] n = 8 -> "8" [] n = 9 -> "9"

\* The JavaScript value undefined: a one-element sequence whose element is
\* not a character, so it differs from every string, the empty one included.
Undefined == <<"undefined">>

EmptyStr == <<>>

Rep(c, n) == [i \in 1..n |-> c]

IsDigits(s) == \A i \in 1..Len(s) : s[i] \in AllDigits

\* String.prototype.padEnd(n, c) for a one-character pad
padEnd(s, n, c) == IF Len(s) >= n THEN s ELSE s \o Rep(c, n - Len(s))

\* String.prototype.padStart(n, c) for a one-character pad; first the
\* variant with the padding forgotten: the text is used as it is
padStartForgotten(s, n, c) == s

padStart(s, n, c) == IF Len(s) >= n THEN s ELSE Rep(c, n - Len(s)) \o s

\* s.slice(0, -k)
SliceHead(s, k) == IF Len(s) <= k THEN EmptyStr ELSE SubSeq(s, 1, Len(s) - k)

\* s.slice(-k)
SliceTail(s, k) == IF Len(s) <= k THEN s ELSE SubSeq(s, Len(s) - k + 1, Len(s))

\* s.replace(/0+$/, '')
TrimTrailingZeros(s) ==
  LET kept == {i \in 1..Len(s) : s[i] # "0"} IN
    IF kept = {} THEN EmptyStr
    ELSE SubSeq(s, 1, CHOOSE i \in kept : \A j \in kept : j <= i)

\* Position of the first occurrence of character c at or after index i,
\* Len(s) + 1 when there is none.
IndexOf(s, c, i) ==
  LET hits == {j \in i..Len(s) : s[j] = c} IN
    IF hits = {} THEN Len(s) + 1
    ELSE CHOOSE j \in hits : \A k \in hits : j <= k

\* s.split('.'): the sequence of the parts between the dots
RECURSIVE SplitDot(_)
SplitDot(s) ==
  LET p == IndexOf(s, ".", 1) IN
    IF p > Len(s) THEN <<s>>
    ELSE <<SubSeq(s, 1, p - 1)>> \o SplitDot(SubSeq(s, p + 1, Len(s)))

\* parts[i] || dflt : a missing (undefined) or empty part is falsy
PartOr(parts, i, dflt) ==
  IF i > Len(parts) \/ parts[i] = EmptyStr THEN dflt ELSE parts[i]

(***************************************************************************)
(* BigInt: [neg, mag], mag the decimal digits, most significant first,     *)
(* without leading zeros; zero is [neg |-> FALSE, mag |-> <<>>].           *)
(***************************************************************************)
StripLeadingZeros(d) ==
  LET kept == {i \in 1..Len(d) : d[i] # 0} IN
    IF kept = {} THEN <<>>
    ELSE SubSeq(d, CHOOSE i \in kept : \A j \in kept : i <= j, Len(d))

MkBig(neg, d) ==
  LET m == StripLeadingZeros(d) IN [neg |-> neg /\ m # <<>>, mag |-> m]

\* magnitude addition, most significant digit first, carry 0 or 1 coming in.
\* Places are counted from the right; a place receives a carry when a lower
\* place produces one (digit sum 10 or more) and every place between them
\* passes it on (digit sum 9).
AddMag(a, b, carry) ==
  LET n == IF Len(a) >= Len(b) THEN Len(a) ELSE Len(b)
      Sum(p) == (IF p <= Len(a) THEN a[Len(a) - p + 1] ELSE 0)
                  + (IF p <= Len(b) THEN b[Len(b) - p + 1] ELSE 0)
      CarryInto(p) ==
        IF \/ \E q \in 1..(p - 1) : /\ Sum(q) >= 10
                                     /\ \A r \in (q + 1)..(p - 1) : Sum(r) = 9
           \/ carry = 1 /\ \A r \in 1..(p - 1) : Sum(r) = 9
          THEN 1 ELSE 0
  IN (IF CarryInto(n + 1) = 1 THEN <<1>> ELSE <<>>)
       \o [i \in 1..n |-> (Sum(n - i + 1) + CarryInto(n - i + 1)) % 10]

\* magnitude times one digit
RECURSIVE MulMagDigit(_, _, _)
MulMagDigit(a, k, carry) ==
  IF a = <<>> THEN (IF carry = 0 THEN <<>> ELSE <<carry>>)
  ELSE IF k = 1 /\ carry = 0 THEN a
  ELSE LET s == a[Len(a)] * k + carry
       IN MulMagDigit(SubSeq(a, 1, Len(a) - 1), k, s \div 10) \o <<s % 10>>

\* long multiplication, one partial product for each non-zero digit of b
RECURSIVE MulMag(_, _)
MulMag(a, b) ==
  LET used == {i \in 1..Len(b) : b[i] # 0} IN
    IF used = {} THEN <<>>
    ELSE LET k == CHOOSE i \in used : \A j \in used : j <= i
         IN AddMag(MulMag(a, SubSeq(b, 1, k - 1)) \o Rep(0, Len(b) - k + 1),
                   MulMagDigit(a, b[k], 0) \o Rep(0, Len(b) - k), 0)

\* a * b on BigInt
BigMul(a, b) == MkBig(a.neg # b.neg, MulMag(a.mag, b.mag))

\* 10n ** BigInt(k)
BigPow10(k) == [neg |-> FALSE, mag |-> <<1>> \o Rep(0, k)]

\* a division that rounds the quotient half up instead of truncating
BigDivRounded(a, b) ==
  LET k == Len(b.mag) - 1
      n == Len(a.mag)
      q == IF n <= k THEN <<>> ELSE SubSeq(a.mag, 1, n - k)
      up == k >= 1 /\ n >= k /\ a.mag[n - k + 1] >= 5
  IN MkBig(a.neg, IF up THEN AddMag(q, <<1>>, 0) ELSE q)

\* a / b on BigInt (truncating toward zero), for the divisors the source
\* builds, which are all powers of ten: the quotient drops the last digits.
BigDiv(a, b) ==
  LET k == Len(b.mag) - 1 IN
    IF Len(a.mag) <= k THEN MkBig(FALSE, <<>>)
    ELSE MkBig(a.neg, SubSeq(a.mag, 1, Len(a.mag) - k))

\* BigInt.prototype.toString()
BigToString(a) ==
  IF a.mag = <<>> THEN <<"0">>
  ELSE (IF a.neg THEN <<"-">> ELSE <<>>) \o [i \in 1..Len(a.mag) |-> DigitChar(a.mag[i])]

\* BigInt(string) succeeds on a decimal literal: the empty string (0n), or
\* digits with at most one leading sign; anything else is a SyntaxError.
IsBigIntLiteral(s) ==
  \/ s = EmptyStr
  \/ IsDigits(s)
  \/ Len(s) >= 2 /\ s[1] \in {"-", "+"} /\ IsDigits(Tail(s))

\* BigInt(string) for a string that IsBigIntLiteral
BigIntOfString(s) ==
  IF s = EmptyStr THEN MkBig(FALSE, <<>>)
  ELSE IF s[1] \in {"-", "+"}
    THEN MkBig(s[1] = "-", [i \in 1..(Len(s) - 1) |-> DigitVal(s[i + 1])])
  ELSE MkBig(FALSE, [i \in 1..Len(s) |-> DigitVal(s[i])])

(***************************************************************************)
(* Results of calls: a returned value or a thrown error.                   *)
(***************************************************************************)
Ok(v) == [ok |-> TRUE, val |-> v, err |-> "none"]

Err(e) == [ok |-> FALSE, val |-> Undefined, err |-> e]

(***************************************************************************)
(* utils.js                                                                *)
(***************************************************************************)
COLLATERAL_TOKEN_DECIMAL == 18

\* calculateAmountWithBigInt(shares, price): shares * price / 100
calculateAmountWithBigInt(shares, price) ==
  LET Render(resultStr) ==
        LET resultIntRaw == SliceHead(resultStr, 18)
            resultInt == IF resultIntRaw = EmptyStr THEN <<"0">> ELSE resultIntRaw
            resultDec == SliceTail(resultStr, 18)
            trimmedDec == TrimTrailingZeros(resultDec)
        IN IF trimmedDec = EmptyStr THEN Ok(resultInt)
           ELSE Ok(resultInt \o <<".">> \o trimmedDec)
      Multiply(sharesText, priceText, totalDecPlaces) ==
        IF ~IsBigIntLiteral(sharesText) \/ ~IsBigIntLiteral(priceText)
          THEN Err("SyntaxError")
        ELSE
          LET sharesBigInt == BigIntOfString(sharesText)
              priceBigInt == BigIntOfString(priceText)
              product == BigMul(sharesBigInt, priceBigInt)
              divisor == BigMul(BigPow10(2), BigPow10(totalDecPlaces))
              resultScaled == BigDiv(BigMul(product, BigPow10(18)), divisor)
          IN Render(padStart(BigToString(resultScaled), 19, "0"))
      Parse(sharesInt, sharesDec, priceInt, priceDec) ==
        LET sharesDecPlaces == Len(sharesDec)
            priceDecPlaces == Len(priceDec)
        IN Multiply(sharesInt \o padEnd(sharesDec, sharesDecPlaces, "0"),
                    priceInt \o padEnd(priceDec, priceDecPlaces, "0"),
                    sharesDecPlaces + priceDecPlaces)
      Split(sharesParts, priceParts) ==
        Parse(PartOr(sharesParts, 1, <<"0">>), PartOr(sharesParts, 2, EmptyStr),
              PartOr(priceParts, 1, <<"0">>), PartOr(priceParts, 2, EmptyStr))
  IN IF shares = Undefined \/ price = Undefined THEN Err("TypeError")
     ELSE Split(SplitDot(shares), SplitDot(price))

\* ethers.parseUnits(text, decimals): the text must match
\* /^(-?)([0-9]*)\.?([0-9]*)$/ with at least one digit; fractional digits
\* beyond `decimals` must all be zero.
ParseUnitsMatch(s) ==
  LET body == IF s # EmptyStr /\ s[1] = "-" THEN Tail(s) ELSE s
      p == IndexOf(body, ".", 1)
      whole == SubSeq(body, 1, p - 1)
      frac == SubSeq(body, p + 1, Len(body))
  IN [matched |-> IsDigits(whole) /\ IsDigits(frac) /\ Len(whole) + Len(frac) > 0,
      neg |-> s # EmptyStr /\ s[1] = "-",
      whole |-> whole,
      frac |-> frac]

\* toWei cutting the fraction at 18 digits without looking at the rest
toWeiTruncating(amount) ==
  LET Convert(m) ==
        LET decimals == COLLATERAL_TOKEN_DECIMAL
            whole == IF m.whole = EmptyStr THEN <<"0">> ELSE m.whole
            Units(decimal) ==
              Ok(BigToString(BigIntOfString(
                   (IF m.neg THEN <<"-">> ELSE <<>>) \o whole
                     \o SubSeq(decimal, 1, decimals))))
        IN IF ~m.matched THEN Err("ToWeiError")
           ELSE Units(padEnd(m.frac, decimals, "0"))
  IN IF amount = Undefined THEN Err("ToWeiError")
     ELSE Convert(ParseUnitsMatch(amount))

\* toWei(amount, decimals = COLLATERAL_TOKEN_DECIMAL)
toWei(amount) ==
  LET Convert(m) ==
        LET decimals == COLLATERAL_TOKEN_DECIMAL
            whole == IF m.whole = EmptyStr THEN <<"0">> ELSE m.whole
            Units(decimal) ==
              IF \E i \in (decimals + 1)..Len(decimal) : decimal[i] # "0"
                THEN Err("ToWeiError")
              ELSE Ok(BigToString(BigIntOfString(
                        (IF m.neg THEN <<"-">> ELSE <<>>) \o whole
                          \o SubSeq(decimal, 1, decimals))))
        IN IF ~m.matched THEN Err("ToWeiError")
           ELSE Units(padEnd(m.frac, decimals, "0"))
  IN IF amount = Undefined THEN Err("ToWeiError")
     ELSE Convert(ParseUnitsMatch(amount))

\* fromWei placing the dot without padding the digits to 18 places
fromWeiUnpadded(wei) ==
  LET Format(str) ==
        LET whole == SliceHead(str, COLLATERAL_TOKEN_DECIMAL)
            trimmed == TrimTrailingZeros(SliceTail(str, COLLATERAL_TOKEN_DECIMAL))
        IN (IF whole = EmptyStr THEN <<"0">> ELSE whole) \o <<".">>
             \o (IF trimmed = EmptyStr THEN <<"0">> ELSE trimmed)
      Render(val) ==
        Ok((IF val.neg THEN <<"-">> ELSE <<>>)
             \o Format(BigToString([neg |-> FALSE, mag |-> val.mag])))
  IN IF wei = Undefined \/ wei = EmptyStr \/ ~IsBigIntLiteral(wei) THEN Err("FromWeiError")
     ELSE Render(BigIntOfString(wei))

\* fromWei(wei, decimals = COLLATERAL_TOKEN_DECIMAL): ethers.formatUnits pads
\* the digits to more than 18 places, puts the dot before the last 18 and trims
\* the zeros at both ends, keeping one digit on each side of the dot
fromWei(wei) ==
  LET Format(str) ==
        LET whole == SliceHead(str, COLLATERAL_TOKEN_DECIMAL)
            trimmed == TrimTrailingZeros(SliceTail(str, COLLATERAL_TOKEN_DECIMAL))
        IN whole \o <<".">> \o (IF trimmed = EmptyStr THEN <<"0">> ELSE trimmed)
      Render(val) ==
        Ok((IF val.neg THEN <<"-">> ELSE <<>>)
             \o Format(padStart(BigToString([neg |-> FALSE, mag |-> val.mag]),
                                COLLATERAL_TOKEN_DECIMAL + 1, "0")))
  IN IF wei = Undefined \/ wei = EmptyStr \/ ~IsBigIntLiteral(wei) THEN Err("FromWeiError")
     ELSE Render(BigIntOfString(wei))

\* generateSalt(): Date.now().toString()
RECURSIVE NatToString(_)
NatToString(n) ==
  IF n < 10 THEN <<DigitChar(n)>>
  ELSE NatToString(n \div 10) \o <<DigitChar(n % 10)>>

\* getCurrentTimestamp(): Math.round(Date.now() / 1000), also the payload timestamp
getCurrentTimestamp(clock) == (clock + 500) \div 1000

\* a salt taken from the clock in seconds
generateSaltInSeconds(clock) == NatToString(getCurrentTimestamp(clock))

generateSalt(clock) == NatToString(clock)

(***************************************************************************)
(* test_price_conversion.js                                                *)
(***************************************************************************)
\* formatPriceWithBigInt(limitPrice): limitPrice / 100 with 3 decimals
formatPriceWithBigInt(limitPrice) ==
  LET Render(resultStr) ==
        LET resultIntRaw == SliceHead(resultStr, 3)
            resultInt == IF resultIntRaw = EmptyStr THEN <<"0">> ELSE resultIntRaw
            resultDec == SliceTail(resultStr, 3)
        IN Ok(resultInt \o <<".">> \o resultDec)
      Divide(fullInteger) ==
        IF ~IsBigIntLiteral(fullInteger) THEN Err("SyntaxError")
        ELSE
          LET bigIntValue == BigIntOfString(fullInteger)
              resultTimes1000 == BigDiv(BigMul(bigIntValue, BigPow10(3)), BigPow10(4))
          IN Render(padStart(BigToString(resultTimes1000), 4, "0"))
      Split(parts) ==
        LET integerPart == PartOr(parts, 1, <<"0">>)
            decimalPart == padEnd(PartOr(parts, 2, <<"0">>), 2, "0")
        IN Divide(integerPart \o decimalPart)
  IN Split(SplitDot(limitPrice))

(***************************************************************************)
(* Reading decimal strings as numbers, for stating the properties.         *)
(***************************************************************************)
RECURSIVE StrToNat(_)
StrToNat(s) ==
  IF s = EmptyStr THEN 0
  ELSE StrToNat(SubSeq(s, 1, Len(s) - 1)) * 10 + DigitVal(s[Len(s)])

StripZeroChars(s) ==
  LET kept == {i \in 1..Len(s) : s[i] # "0"} IN
    IF kept = {} THEN EmptyStr
    ELSE SubSeq(s, CHOOSE i \in kept : \A j \in kept : i <= j, Len(s))

IntPartOf(s) == SplitDot(s)[1]

FracPartOf(s) == IF Len(SplitDot(s)) >= 2 THEN SplitDot(s)[2] ELSE EmptyStr

\* a decimal string: digits, optionally a dot and digits
IsDecimal(s) ==
  /\ Len(SplitDot(s)) <= 2
  /\ IsDigits(IntPartOf(s))
  /\ IsDigits(FracPartOf(s))
  /\ Len(IntPartOf(s)) + Len(FracPartOf(s)) > 0

IsPositive(s) == \E i \in 1..Len(s) : s[i] \in AllDigits \ {"0"}

\* the value of the decimal string lies in [0, 100]
InPercentRange(s) ==
  /\ IsDecimal(s)
  /\ \/ Len(StripZeroChars(IntPartOf(s))) <= 2
     \/ /\ StripZeroChars(IntPartOf(s)) = <<"1", "0", "0">>
        /\ ~IsPositive(FracPartOf(s))

(***************************************************************************)
(* constants.js                                                            *)
(***************************************************************************)
CHAIN_ID == 56
Side_BUY == 0
Side_SELL == 1
SignatureType_POLY_GNOSIS_SAFE == 2
TradingMethod_LIMIT == 2
VolumeType_SHARES == "Shares"
VolumeType_AMOUNT == "Amount"
ZERO_ADDRESS == <<"0", "x">> \o Rep("0", 40)
EXCHANGE_ADDRESS ==
  <<"0", "x", "5", "F", "4", "5", "3", "4", "4", "1", "2", "6", "D", "6", "4", "8",
    "8", "0", "2", "5", "B", "0", "b", "8", "4", "A", "3", "A", "8", "1", "8", "9",
    "F", "2", "4", "8", "7", "a", "7", "2", "4", "6">>

LowerChar(c) ==
  CASE c = "A" -> "a" [] c = "B" -> "b" [] c = "C" -> "c" [] c = "D" -> "d"
    [] c = "E" -> "e" [] c = "F" -> "f" [] c = "X" -> "x" [] OTHER -> c

\* String.prototype.toLowerCase()
toLowerCase(s) == [i \in 1..Len(s) |-> LowerChar(s[i])]

EIP712_DOMAIN ==
  [name |-> "OPINION CTF Exchange", version |-> "1",
   chainId |-> NatToString(CHAIN_ID),
   verifyingContract |-> toLowerCase(EXCHANGE_ADDRESS)]

\* the Order type with the salt field left out
EIP712_TYPES_NoSalt ==
  << [name |-> "maker", type |-> "address"],
     [name |-> "signer", type |-> "address"],
     [name |-> "taker", type |-> "address"],
     [name |-> "tokenId", type |-> "uint256"],
     [name |-> "makerAmount", type |-> "uint256"],
     [name |-> "takerAmount", type |-> "uint256"],
     [name |-> "expiration", type |-> "uint256"],
     [name |-> "nonce", type |-> "uint256"],
     [name |-> "feeRateBps", type |-> "uint256"],
     [name |-> "side", type |-> "uint8"],
     [name |-> "signatureType", type |-> "uint8"] >>

EIP712_TYPES_Order ==
  << [name |-> "salt", type |-> "uint256"],
     [name |-> "maker", type |-> "address"],
     [name |-> "signer", type |-> "address"],
     [name |-> "taker", type |-> "address"],
     [name |-> "tokenId", type |-> "uint256"],
     [name |-> "makerAmount", type |-> "uint256"],
     [name |-> "takerAmount", type |-> "uint256"],
     [name |-> "expiration", type |-> "uint256"],
     [name |-> "nonce", type |-> "uint256"],
     [name |-> "feeRateBps", type |-> "uint256"],
     [name |-> "side", type |-> "uint8"],
     [name |-> "signatureType", type |-> "uint8"] >>

(***************************************************************************)
(* IEEE-754 double arithmetic of the source, on the limit prices of the    *)
(* order-level input domain: String(100 * Number(text)) and                *)
(* (parseFloat(text) / 100).toString(), as ECMAScript evaluates them.      *)
(***************************************************************************)
FloatTable ==
  { [text |-> <<"9", "9">>, times100 |-> <<"9", "9", "0", "0">>, div100 |-> <<"0", ".", "9", "9">>],
    [text |-> <<"9", "9", ".", "1", "1">>, times100 |-> <<"9", "9", "1", "1">>, div100 |-> <<"0", ".", "9", "9", "1", "1">>],
    [text |-> <<"0", ".", "5">>, times100 |-> <<"5", "0">>, div100 |-> <<"0", ".", "0", "0", "5">>],
    [text |-> <<"1", "0", "0">>, times100 |-> <<"1", "0", "0", "0", "0">>, div100 |-> <<"1">>],
    [text |-> <<"1", ".", "1">>,
     times100 |-> <<"1", "1", "0", ".", "0", "0", "0", "0", "0", "0", "0", "0", "0", "0", "0", "0", "0", "1">>,
     div100 |-> <<"0", ".", "0", "1", "1", "0", "0", "0", "0", "0", "0", "0", "0", "0", "0", "0", "0", "0", "0", "1">>],
    [text |-> <<"1", "0", "1">>, times100 |-> <<"1", "0", "1", "0", "0">>, div100 |-> <<"1", ".", "0", "1">>],
    [text |-> <<"-", "1">>, times100 |-> <<"-", "1", "0", "0">>, div100 |-> <<"-", "0", ".", "0", "1">>],
    [text |-> <<"5", "x">>, times100 |-> <<"N", "a", "N">>, div100 |-> <<"0", ".", "0", "5">>],
    [text |-> <<>>, times100 |-> <<"0">>, div100 |-> <<"N", "a", "N">>],
    [text |-> Undefined, times100 |-> <<"N", "a", "N">>, div100 |-> <<"N", "a", "N">>] }

LimitPriceInputs == { e.text : e \in FloatTable }

\* String(100 * Number(limitPrice))              (calculateOrderAmounts)
StringOf100TimesNumber(text) == (CHOOSE e \in FloatTable : e.text = text).times100

\* (parseFloat(limitPrice) / 100).toString()     (buildApiPayload)
StringOfParseFloatDiv100(text) == (CHOOSE e \in FloatTable : e.text = text).div100

\* the longest prefix of s that consists of digits
RECURSIVE DigitPrefix(_)
DigitPrefix(s) ==
  IF s # EmptyStr /\ s[1] \in AllDigits THEN <<s[1]>> \o DigitPrefix(Tail(s)) ELSE EmptyStr

\* parseFloat(text): the value of the longest prefix that is a decimal
\* literal (sign, digits, dot, digits); NaN when that prefix has no digit.
parseFloat(text) ==
  IF text = Undefined THEN [nan |-> TRUE, neg |-> FALSE, int |-> EmptyStr, frac |-> EmptyStr]
  ELSE
    LET signed == text # EmptyStr /\ text[1] \in {"-", "+"}
        body == IF signed THEN Tail(text) ELSE text
        int == DigitPrefix(body)
        rest == SubSeq(body, Len(int) + 1, Len(body))
        frac == IF rest # EmptyStr /\ rest[1] = "." THEN DigitPrefix(Tail(rest)) ELSE EmptyStr
    IN [nan |-> Len(int) + Len(frac) = 0,
        neg |-> signed /\ text[1] = "-",
        int |-> int,
        frac |-> frac]

\* price < 0 and price > 100 on a parsed number
FloatIsNegative(f) == ~f.nan /\ f.neg /\ (IsPositive(f.int) \/ IsPositive(f.frac))

FloatExceeds100(f) ==
  LET w == StripZeroChars(f.int) IN
    /\ ~f.nan
    /\ ~f.neg
    /\ \/ Len(w) > 3
       \/ Len(w) = 3 /\ StrToNat(w) > 100
       \/ Len(w) = 3 /\ StrToNat(w) = 100 /\ IsPositive(f.frac)

\* !x for a string-valued parameter: undefined and '' are falsy
Falsy(x) == x = Undefined \/ x = EmptyStr

\* a destructuring default: x = dflt applies when x is undefined
Default(x, dflt) == IF x = Undefined THEN dflt ELSE x

\* the side mapping with the SELL branch a copy of the BUY branch
AmountsBySideUnswapped(side, amount, shares) ==
  LET Amounts(makerR, takerR) ==
        IF ~makerR.ok THEN makerR
        ELSE IF ~takerR.ok THEN takerR
        ELSE Ok([makerAmount |-> makerR.val, takerAmount |-> takerR.val])
  IN Amounts(toWei(amount), toWei(shares))

\* the side mapping of calculateOrderAmounts: side 0 is BUY, anything else
\* takes the SELL branch; the first toWei that throws ends the call
AmountsBySide(side, amount, shares) ==
  LET Amounts(makerR, takerR) ==
        IF ~makerR.ok THEN makerR
        ELSE IF ~takerR.ok THEN takerR
        ELSE Ok([makerAmount |-> makerR.val, takerAmount |-> takerR.val])
  IN IF side = 0 THEN Amounts(toWei(amount), toWei(shares))
     ELSE Amounts(toWei(shares), toWei(amount))

\* calculateOrderAmounts deriving the amount from shares and price in every mode
calculateOrderAmountsFromShares(params) ==
  LET isStable == params.isStableCoin = <<TRUE>>
      price == IF isStable THEN params.limitPrice
               ELSE StringOf100TimesNumber(params.limitPrice)
      Convert(amountR) ==
        IF ~amountR.ok THEN amountR
        ELSE AmountsBySide(params.side, amountR.val, params.shares)
  IN Convert(calculateAmountWithBigInt(params.shares, price))

\* calculateOrderAmounts(params)
calculateOrderAmounts(params) ==
  LET isStable == params.isStableCoin = <<TRUE>>
      price == IF isStable THEN params.limitPrice
               ELSE StringOf100TimesNumber(params.limitPrice)
      Convert(amountR) ==
        IF ~amountR.ok THEN amountR
        ELSE AmountsBySide(params.side, amountR.val, params.shares)
  IN IF params.volumeType = "Shares"
       THEN Convert(calculateAmountWithBigInt(params.shares, price))
       ELSE Convert(Ok(params.buyInputVal))

(***************************************************************************)
(* orderBuilder.js                                                         *)
(***************************************************************************)
\* the validation of buildOrderParams: the error it throws, "none" when the
\* parameters pass and calculateOrderAmounts is invoked
ValidateOrderParams(params) ==
  LET price == parseFloat(params.limitPrice) IN
    IF Falsy(params.maker) \/ Falsy(params.signer) \/ Falsy(params.tokenId)
         \/ Falsy(params.limitPrice) \/ Falsy(params.shares)
      THEN "MissingRequiredParameters"
    ELSE IF params.side # Side_BUY /\ params.side # Side_SELL THEN "InvalidSide"
    ELSE IF price.nan \/ FloatIsNegative(price) \/ FloatExceeds100(price)
      THEN "LimitPriceOutOfRange"
    ELSE "none"

\* the parameters an error message of buildOrderParams names
FieldsNamedBy(err) ==
  CASE err = "MissingRequiredParameters" ->
         { "maker", "signer", "tokenId", "limitPrice", "shares" }
    [] err = "InvalidSide" -> { "side" }
    [] err = "LimitPriceOutOfRange" -> { "limitPrice" }
    [] OTHER -> {}

\* buildOrderParams(params)
buildOrderParams(params) ==
  LET volumeType == IF params.volumeType = "undefined" THEN VolumeType_SHARES
                    ELSE params.volumeType
      buyInputVal == Default(params.buyInputVal, <<"0">>)
      isStableCoin == IF params.isStableCoin = <<>> THEN <<TRUE>> ELSE params.isStableCoin
      expiration == Default(params.expiration, <<"0">>)
      feeRateBps == Default(params.feeRateBps, <<"0">>)
      Build(invalid, amounts) ==
        IF invalid # "none" THEN Err(invalid)
        ELSE IF ~amounts.ok THEN amounts
        ELSE Ok([maker |-> params.maker, signer |-> params.signer,
                 tokenId |-> params.tokenId,
                 makerAmount |-> amounts.val.makerAmount,
                 takerAmount |-> amounts.val.takerAmount,
                 side |-> params.side,
                 expiration |-> expiration, feeRateBps |-> feeRateBps])
  IN Build(ValidateOrderParams(params),
           calculateOrderAmounts(
             [side |-> params.side, shares |-> params.shares,
              limitPrice |-> params.limitPrice, volumeType |-> volumeType,
              buyInputVal |-> buyInputVal, isStableCoin |-> isStableCoin]))

\* parseInt(topicId): the digits at the start of the text, NaN without one
parseInt(text) ==
  IF text = Undefined \/ DigitPrefix(text) = EmptyStr THEN [nan |-> TRUE, n |-> 0]
  ELSE [nan |-> FALSE, n |-> StrToNat(DigitPrefix(text))]

\* buildApiPayload(params), reading the clock once for the timestamp
buildApiPayload(params, clock) ==
  LET signedOrder == params.signedOrder
      isStableCoin == IF params.isStableCoin = <<>> THEN <<TRUE>> ELSE params.isStableCoin
      safeRate == Default(params.safeRate, <<"0">>)
      apiPrice == IF isStableCoin = <<TRUE>>
                    THEN StringOfParseFloatDiv100(params.limitPrice)
                    ELSE params.limitPrice
  IN [topicId |-> parseInt(params.topicId),
      contractAddress |-> EmptyStr,
      price |-> apiPrice,
      tradingMethod |-> TradingMethod_LIMIT,
      salt |-> signedOrder.salt,
      maker |-> signedOrder.maker,
      signer |-> signedOrder.signer,
      taker |-> signedOrder.taker,
      tokenId |-> signedOrder.tokenId,
      makerAmount |-> signedOrder.makerAmount,
      takerAmount |-> signedOrder.takerAmount,
      expiration |-> signedOrder.expiration,
      nonce |-> signedOrder.nonce,
      feeRateBps |-> signedOrder.feeRateBps,
      side |-> NatToString(signedOrder.side),
      signatureType |-> NatToString(signedOrder.signatureType),
      signature |-> signedOrder.signature,
      timestamp |-> getCurrentTimestamp(clock),
      sign |-> signedOrder.signature,
      safeRate |-> safeRate,
      orderExpTime |-> signedOrder.expiration,
      currencyAddress |-> params.collateralTokenAddr,
      chainId |-> params.chainId]

(***************************************************************************)
(* signer.js (second half of orderBuilder.js)                              *)
(***************************************************************************)
\* createOrder letting the caller's taker, nonce and signatureType through
createOrderSpreadingParams(params, clock) ==
  LET salt == generateSalt(clock) IN
    IF params.maker = Undefined \/ params.signer = Undefined THEN Err("TypeError")
    ELSE Ok([salt |-> salt,
             maker |-> toLowerCase(params.maker),
             signer |-> toLowerCase(params.signer),
             taker |-> Default(params.taker, ZERO_ADDRESS),
             tokenId |-> params.tokenId,
             makerAmount |-> params.makerAmount,
             takerAmount |-> params.takerAmount,
             expiration |-> Default(params.expiration, <<"0">>),
             nonce |-> Default(params.nonce, <<"0">>),
             feeRateBps |-> Default(params.feeRateBps, <<"0">>),
             side |-> params.side,
             signatureType |-> IF params.signatureType = <<>>
                                 THEN SignatureType_POLY_GNOSIS_SAFE
                                 ELSE params.signatureType[1]])

\* createOrder(params), reading the clock once for the salt
createOrder(params, clock) ==
  LET salt == generateSalt(clock) IN
    IF params.maker = Undefined \/ params.signer = Undefined THEN Err("TypeError")
    ELSE Ok([salt |-> salt,
             maker |-> toLowerCase(params.maker),
             signer |-> toLowerCase(params.signer),
             taker |-> ZERO_ADDRESS,
             tokenId |-> params.tokenId,
             makerAmount |-> params.makerAmount,
             takerAmount |-> params.takerAmount,
             expiration |-> Default(params.expiration, <<"0">>),
             nonce |-> <<"0">>,
             feeRateBps |-> Default(params.feeRateBps, <<"0">>),
             side |-> params.side,
             signatureType |-> SignatureType_POLY_GNOSIS_SAFE])

HexChars == AllDigits \cup {"a", "b", "c", "d", "e", "f", "A", "B", "C", "D", "E", "F"}

\* ethers.isAddress, without the checksum of mixed-case text
isValidAddress(address) ==
  /\ address # Undefined
  /\ Len(address) = 42
  /\ address[1] = "0"
  /\ address[2] = "x"
  /\ \A i \in 3..42 : address[i] \in HexChars

\* the typed-data encoder of wallet.signTypedData accepts a field value
TypedValueOk(type, value) ==
  CASE type = "address" -> isValidAddress(value)
    [] type = "uint256" ->
         /\ value # Undefined
         /\ value # EmptyStr
         /\ IsBigIntLiteral(value)
         /\ value[1] # "-"
    [] type = "uint8" -> value \in 0..255

\* the value that enters the digest
TypedValue(type, value) ==
  CASE type = "address" -> toLowerCase(value)
    [] type = "uint256" -> BigIntOfString(value).mag
    [] type = "uint8" -> value

\* wallet.signTypedData(domain, { Order: types }, order): the signature is a
\* function of the key, the domain and the encoded values of the typed
\* fields, in the order of the type; it throws on a value the encoder
\* rejects.  A signature is the text '0x' + head + body, head being empty
\* for what the signer returns.
signTypedData(privateKey, domain, types, order) ==
  IF \E i \in 1..Len(types) : ~TypedValueOk(types[i].type, order[types[i].name])
    THEN Err("INVALID_ARGUMENT")
  ELSE Ok([head |-> EmptyStr,
           body |-> [key |-> privateKey,
                     domain |-> domain,
                     digest |-> [i \in 1..Len(types) |->
                                   TypedValue(types[i].type, order[types[i].name])]]])

\* a signer that bumps the nonce of the order it returns
WithSignatureAndNonce(order, signature) ==
  [f \in (DOMAIN order) \cup {"signature"} |->
     IF f = "signature" THEN signature
     ELSE IF f = "nonce" THEN <<"1">> ELSE order[f]]

\* { ...order, signature }
WithSignature(order, signature) ==
  [f \in (DOMAIN order) \cup {"signature"} |->
     IF f = "signature" THEN signature ELSE order[f]]

\* encodeGnosisSafeSignature(signer, signature): '0x' + signer + signature,
\* both without their '0x'
encodeGnosisSafeSignature(signer, signature) ==
  LET lower == toLowerCase(signer)
      cleanSigner == IF Len(lower) >= 2 /\ lower[1] = "0" /\ lower[2] = "x"
                       THEN SubSeq(signer, 3, Len(signer)) ELSE signer
  IN [head |-> toLowerCase(cleanSigner) \o signature.head, body |-> signature.body]

\* signOrder returning the order with an empty signature when the signer throws
signOrderSwallowingError(wallet, order) ==
  LET Returned(signed) ==
        IF signed.ok THEN Ok(WithSignature(order, signed.val))
        ELSE Ok(WithSignature(order, [head |-> EmptyStr,
                                      body |-> [key |-> "none", domain |-> EIP712_DOMAIN,
                                                digest |-> <<>>]]))
  IN Returned(signTypedData(wallet, EIP712_DOMAIN, EIP712_TYPES_Order, order))

\* signOrder packing the signature for the Gnosis Safe
signOrderGnosisEncoded(wallet, order) ==
  LET signed == signTypedData(wallet, EIP712_DOMAIN, EIP712_TYPES_Order, order) IN
    IF signed.ok
      THEN Ok(WithSignature(order, encodeGnosisSafeSignature(order.signer, signed.val)))
    ELSE Err("FailedToSignOrder")

\* signOrder(wallet, order)
signOrder(wallet, order) ==
  LET signed == signTypedData(wallet, EIP712_DOMAIN, EIP712_TYPES_Order, order) IN
    IF signed.ok THEN Ok(WithSignature(order, signed.val))
    ELSE Err("FailedToSignOrder")

(***************************************************************************)
(* Input domains of the arithmetic functions: decimal strings with a       *)
(* non-empty integer part and an optional fractional part.                 *)
(***************************************************************************)
DecStrings(chars, maxInt, maxFrac) ==
  UNION { { ip \o (IF f = <<>> THEN <<>> ELSE <<".">> \o f)
            : ip \in [1..i -> chars], f \in UNION { [1..k -> chars] : k \in 0..maxFrac } }
          : i \in 1..maxInt }

ShareChars == {"0", "5"}
PriceChars == {"0", "9"}
PercentChars == {"0", "1", "9"}

\* the share counts and prices of test_amount_calculation.js and of the
\* scenarios of the specification
ExampleShares == { <<"1", ".", "5">>, <<"1", "0">>, <<"1", "0", ".", "0", "0">>,
                   <<"1", ".", "2", "3">> }
ExamplePrices == { <<"9", "9", ".", "1", "1">>, <<"5", "0", ".", "5">>,
                   <<"4", "5", ".", "6", "7">>, <<"1", "0", "0">> }

\* share counts and prices with long fractions: the fractional digit counts
\* of a pair sum to 15 up to 20, on both sides of the 16 that 18 decimals hold
LongFractionShares ==
  { <<"0", ".">> \o Rep("0", 8) \o <<"5">>,
    <<"0", ".">> \o Rep("0", 8) \o <<"5", "5">>,
    <<"0", ".">> \o Rep("0", 6) \o <<"1", "5">>,
    <<"1", ".">> \o Rep("0", 6) \o <<"5">> }
LongFractionPrices ==
  { <<"0", ".">> \o Rep("0", 7) \o <<"9">>,
    <<"0", ".">> \o Rep("0", 8) \o <<"9">>,
    <<"0", ".">> \o Rep("0", 9) \o <<"9">>,
    <<"0", ".">> \o Rep("0", 7) \o <<"9", "9">> }

\* the inputs of test_price_conversion.js
ExamplePercents == { <<"9", "9", ".", "1", "1">>, <<"9", "9", ".", "1">>,
                     <<"5", "0", ".", "0">>, <<"5", "0">>, <<"1", "0", "0">>,
                     <<"0">>, <<"1">>, <<"1", "0", ".", "5">>,
                     <<"9", "9", ".", "9", "9">>, <<"0", ".", "5">> }

ShareInputs == DecStrings(ShareChars, MaxIntDigits, MaxFracDigits) \cup ExampleShares
PriceInputs == DecStrings(PriceChars, MaxIntDigits, MaxFracDigits) \cup ExamplePrices
PercentInputs ==
  DecStrings(PercentChars, MaxIntDigits, MaxPriceFracDigits) \cup ExamplePercents

\* amounts for toWei: 18 and 19 fractional digits, and texts that are not numbers
WeiInputs ==
  ShareInputs
    \cup { <<"0">>, <<"9", ".", "9", "0">>, <<"-", "5">>, <<"1", ".">>, <<".", "5">>,
           <<"0", ".">> \o Rep("0", 17) \o <<"1">>,
           <<"1", ".">> \o Rep("0", 18) \o <<"1">>,
           <<"1", ".">> \o Rep("0", 19),
           <<"1", ".", "5">> \o Rep("0", 17) \o <<"9">>,
           EmptyStr, <<".">>, <<"-">>, <<"+", "5">>, <<"a", "b", "c">>,
           <<"1", "e", "5">>, <<"1", ".", "2", ".", "3">>, <<"1", ",", "5">>, Undefined }

\* base-unit integers for fromWei
BaseUnitChars == {"0", "1"}
BaseUnitInputs ==
  UNION { [1..n -> BaseUnitChars] : n \in 1..(MaxIntDigits + 1) }
    \cup { <<"5">>, <<"1">> \o Rep("0", 18), <<"9", "9">> \o Rep("0", 17),
           <<"1">> \o Rep("0", 17), <<"1", "2", "3">> \o Rep("0", 19),
           <<"1">> \o Rep("0", 18) \o <<"1">>, <<"-", "5">>,
           <<"1", ".", "5">>, <<"a", "b", "c">>, EmptyStr, Undefined }

\* order-level inputs
OrderShareInputs == { <<"1", "0", ".", "0", "0">>, <<"1", ".", "5">>, <<"-", "5">>, EmptyStr, Undefined }
BuyInputVals == { Undefined, <<"9", ".", "9", "0">>, <<"-", "1">> }
SideInputs == { Side_BUY, Side_SELL, 2 }
VolumeTypeInputs == { VolumeType_SHARES, VolumeType_AMOUNT, "undefined" }
StableInputs == { <<>>, <<TRUE>>, <<FALSE>> }
TokenIdInputs == { <<"7">>, <<"x">>, Undefined }

\* addresses: a well-formed mixed-case one, a malformed one, a missing one
MakerConfig == <<"0", "x">> \o Rep("A", 20) \o Rep("1", 20)
AddressInputs == { MakerConfig, <<"0", "x", "1", "2">>, Undefined }

PrivateKeys == { "key1" }

\* wallet.address of new ethers.Wallet(privateKey)
WalletAddress(privateKey) ==
  IF privateKey = "key1" THEN <<"0", "x">> \o Rep("B", 20) \o Rep("2", 20)
  ELSE <<"0", "x">> \o Rep("C", 20) \o Rep("3", 20)

COLLATERAL_TOKEN_ADDRESS ==
  <<"0", "x", "5", "5", "d", "3", "9", "8", "3", "2", "6", "f", "9", "9", "0", "5",
    "9", "f", "F", "7", "7", "5", "4", "8", "5", "2", "4", "6", "9", "9", "9", "0",
    "2", "7", "B", "3", "1", "9", "7", "9", "5", "5">>

\* new OpinionTradeSDK({ privateKey, makerAddress })
OpinionTradeSDK(privateKey, makerAddress) ==
  [wallet |-> privateKey,
   signerAddress |-> WalletAddress(privateKey),
   makerAddress |-> toLowerCase(makerAddress),
   collateralTokenAddr |-> toLowerCase(COLLATERAL_TOKEN_ADDRESS),
   chainId |-> CHAIN_ID]

\* the createLimitOrder requests of the pipeline
Request(topicId, tokenId, limitPrice, shares, side, volumeType, buyInputVal, isStableCoin) ==
  [topicId |-> topicId, tokenId |-> tokenId, limitPrice |-> limitPrice,
   shares |-> shares, side |-> side, volumeType |-> volumeType,
   buyInputVal |-> buyInputVal, isStableCoin |-> isStableCoin, safeRate |-> Undefined]

Requests ==
  { Request(<<"7", "8", "9">>, <<"7">>, <<"9", "9">>, <<"1", "0", ".", "0", "0">>, Side_SELL, "undefined", Undefined, <<>>),
    Request(<<"7", "8", "9">>, <<"7">>, <<"9", "9", ".", "1", "1">>, <<"1", ".", "5">>, Side_BUY, "undefined", Undefined, <<TRUE>>),
    Request(<<"7", "8", "9">>, <<"7">>, <<"1", "0", "1">>, <<"1", "0", ".", "0", "0">>, Side_BUY, "undefined", Undefined, <<>>),
    Request(<<"7", "8", "9">>, <<"7">>, <<"5", "x">>, <<"1", "0", ".", "0", "0">>, Side_BUY, VolumeType_AMOUNT, <<"9", ".", "9", "0">>, <<>>),
    Request(<<"7", "8", "9">>, <<"x">>, <<"9", "9">>, <<"1", ".", "5">>, Side_SELL, "undefined", Undefined, <<>>),
    Request(<<"7", "8", "9">>, <<"7">>, <<"0", ".", "5">>, <<"1", "0", ".", "0", "0">>, Side_SELL, VolumeType_SHARES, Undefined, <<FALSE>>) }

\* Two callers use the SDK instance concurrently.  Calls share nothing but the
\* clock, and every property below relates at most two calls.
Calls == {1, 2}
Clocks == ClockStart..(ClockStart + MaxTicks)

(***************************************************************************)
(* TopicAPI (query_orders_example.js): topic metadata with a file cache.   *)
(***************************************************************************)
MaxTopicTicks == 2
TopicClockStart == 100000000

\* loadFromCache: const maxAge = 24 * 60 * 60 * 1000
maxAge == 24 * 60 * 60 * 1000

\* the clock of the topic scenarios advances by half of maxAge at a time
TopicClocks == { TopicClockStart + k * (maxAge \div 2) : k \in 0..MaxTopicTicks }

\* the JavaScript value null
Null == <<"null">>

TopicId == <<"7", "8", "9">>

\* what the API answers for the topic: result.data with yesPos and noPos
\* present or missing, a body without result.data, or no usable answer
TopicData(title, yesPos, noPos) ==
  [topicId |-> TopicId, title |-> title, yesPos |-> yesPos, noPos |-> noPos]

ValidResponses ==
  { TopicData(<<"a">>, <<"7">>, <<"8">>),
    TopicData(<<"a", "b">>, <<"7">>, Undefined),
    TopicData(<<"a", "b", "c">>, Undefined, <<"8">>) }

FetchFailures == { "TransportError", "InvalidTopicData" }

\* calculateNoToken(yesToken)
calculateNoToken(yesToken) == Null

\* parseTopicInfo(data) on a body that has result.data
parseTopicInfo(topicData) ==
  [topicId |-> topicData.topicId,
   title |-> topicData.title,
   yesToken |-> topicData.yesPos,
   noToken |-> IF Falsy(topicData.noPos) THEN calculateNoToken(topicData.yesPos)
               ELSE topicData.noPos]

TopicInfos == { parseTopicInfo(d) : d \in ValidResponses }

\* JSON text of one field value: undefined is left out, null is spelled out
JsonValue(v) ==
  IF v = Undefined THEN EmptyStr
  ELSE IF v = Null THEN <<"n", "u", "l", "l">>
  ELSE v

\* JSON.stringify(cached, null, 2) of { timestamp, topicId, data }
JsonStringify(cached) ==
  <<"{">> \o NatToString(cached.timestamp)
    \o <<",">> \o cached.topicId
    \o <<",">> \o JsonValue(cached.data.yesToken)
    \o <<",">> \o JsonValue(cached.data.noToken)
    \o <<",">> \o cached.data.title
    \o <<"}">>

CacheEntries ==
  [timestamp : TopicClocks, topicId : {TopicId}, data : TopicInfos]

\* JSON.parse(content): the entry the text spells, a SyntaxError on any other
\* text
EntryTexts == { <<e, JsonStringify(e)>> : e \in CacheEntries }

JsonParse(content) ==
  IF \E t \in EntryTexts : t[2] = content
    THEN Ok((CHOOSE t \in EntryTexts : t[2] = content)[1])
    ELSE Err("SyntaxError")

\* the cache file does not exist
NoFile == <<"ENOENT">>

\* what loadFromCache returns: the cached data or null
Cached(data) == [hit |-> TRUE, data |-> <<data>>]
Miss == [hit |-> FALSE, data |-> <<>>]

\* loadFromCache with an expiry test that lets an entry of exactly maxAge pass
loadFromCacheInclusive(content, clock) ==
  LET Check(parsed) ==
        IF ~parsed.ok THEN Miss
        ELSE IF clock - parsed.val.timestamp <= maxAge THEN Cached(parsed.val.data)
        ELSE Miss
  IN IF content = NoFile THEN Miss ELSE Check(JsonParse(content))

\* loadFromCache(topicId) on the content of the cache file, reading the clock
\* once; a missing file and a text that does not parse are both caught
loadFromCache(content, clock) ==
  LET Check(parsed) ==
        IF ~parsed.ok THEN Miss
        ELSE IF clock - parsed.val.timestamp < maxAge THEN Cached(parsed.val.data)
        ELSE Miss
  IN IF content = NoFile THEN Miss ELSE Check(JsonParse(content))

\* fs.writeFile after its open: the text goes to the start of the file, over
\* what the file holds at that moment
WriteAtStart(content, text) ==
  text \o SubSeq(content, Len(text) + 1, Len(content))

UpperChar(c) ==
  CASE c = "y" -> "Y" [] c = "e" -> "E" [] c = "s" -> "S" [] c = "n" -> "N"
    [] c = "o" -> "O" [] c = "m" -> "M" [] c = "a" -> "A" [] c = "b" -> "B"
    [] OTHER -> c

\* String.prototype.toUpperCase
toUpperCase(s) == [i \in 1..Len(s) |-> UpperChar(s[i])]

\* the calls of the topic scenarios
TopicRequest(kind, forceRefresh, position) ==
  [kind |-> kind, forceRefresh |-> forceRefresh, position |-> position]

PositionInputs ==
  { <<"Y", "E", "S">>, <<"n", "o">>, <<"m", "a", "y", "b", "e">>, Undefined }

TopicRequests ==
  { TopicRequest("getTopicInfo", f, Undefined) : f \in BOOLEAN }
    \cup { TopicRequest("createOrderByTopic", FALSE, p) : p \in PositionInputs }

TopicCalls == {1, 2}

IdleTopicCall ==
  [pc |-> "idle", req |-> <<>>, load |-> <<>>, fetch |-> <<>>, entry |-> <<>>,
   info |-> <<>>, out |-> <<>>, invoked |-> <<>>]

(***************************************************************************)
(* State.                                                                  *)
(***************************************************************************)
VARIABLES
  args,         \* unit harness: the function under test and its arguments
  ret,          \* unit harness: <<>> before the call, <<result>> after it
  now,          \* Date.now(), in milliseconds
  sdk,          \* the fields of the OpinionTradeSDK instance
  pc,           \* per createLimitOrder call: the stage it has reached
  req,          \* per call: <<params>> of createLimitOrder
  orderParams,  \* per call: <<orderParams>> once buildOrderParams returned
  order,        \* per call: <<order>> once createOrder returned
  signedOrder,  \* per call: <<signedOrder>> once signOrder returned
  apiPayload,   \* per call: <<apiPayload>> once buildApiPayload returned
  outcome,      \* per call: <<what createLimitOrder returned or threw>>
  trace,        \* per call: the functions invoked so far, in order
  signerOutput, \* per call: <<what wallet.signTypedData returned>>
  clockRead,    \* per call: the Date.now() values read, by createOrder and then
                \* by buildApiPayload
  cacheFile,    \* the text of the cache file of the topic, NoFile when absent
  topicCall,    \* per getTopicInfo / createOrderByTopic call: its progress
  saved         \* the calls whose cache write completed, in completion order

unitVars == <<args, ret>>
sdkVars == <<sdk, pc, req, orderParams, order, signedOrder, apiPayload, outcome,
             trace, signerOutput, clockRead>>
topicVars == <<cacheFile, topicCall, saved>>
vars == <<args, ret, now, sdk, pc, req, orderParams, order, signedOrder, apiPayload,
          outcome, trace, signerOutput, clockRead, cacheFile, topicCall, saved>>

NoCalls == [c \in Calls |-> <<>>]

NoTopicCalls ==
  /\ cacheFile = NoFile
  /\ topicCall = [p \in TopicCalls |-> IdleTopicCall]
  /\ saved = <<>>

InitSdk ==
  /\ sdk \in { OpinionTradeSDK(k, MakerConfig) : k \in PrivateKeys }
  /\ pc = [c \in Calls |-> "idle"]
  /\ req = NoCalls
  /\ orderParams = NoCalls
  /\ order = NoCalls
  /\ signedOrder = NoCalls
  /\ apiPayload = NoCalls
  /\ outcome = NoCalls
  /\ trace = NoCalls
  /\ signerOutput = NoCalls
  /\ clockRead = NoCalls

(***************************************************************************)
(* OpinionTradeSDK.createLimitOrder, stage by stage.                       *)
(***************************************************************************)
\* a catch block that logs the error and lets the call return normally
ThrewSwallowed(c, stage, err) ==
  /\ outcome' = [outcome EXCEPT ![c] = <<[ok |-> TRUE, err |-> "none", stage |-> stage]>>]
  /\ pc' = [pc EXCEPT ![c] = "done"]

\* the catch block of createLimitOrder logs and rethrows; a stage that throws
\* ends the call
Threw(c, stage, err) ==
  /\ outcome' = [outcome EXCEPT ![c] = <<[ok |-> FALSE, err |-> err, stage |-> stage]>>]
  /\ pc' = [pc EXCEPT ![c] = "failed"]

\* a caller invokes sdk.createLimitOrder(params); the calls are numbered in
\* the order of their invocation
CreateLimitOrder(c) ==
  /\ pc[c] = "idle"
  /\ IF c = 1 THEN TRUE ELSE pc[c - 1] # "idle"
  /\ \E r \in Requests : req' = [req EXCEPT ![c] = <<r>>]
  /\ pc' = [pc EXCEPT ![c] = "called"]
  /\ trace' = [trace EXCEPT ![c] = <<"createLimitOrder">>]
  /\ UNCHANGED <<unitVars, topicVars, now, sdk, orderParams, order, signedOrder, apiPayload,
                 outcome, signerOutput, clockRead>>

\* the argument taken from the request of whichever call was invoked last,
\* as if createLimitOrder kept its parameters on the instance
OrderParamsArgOfLatestCall(c) ==
  LET r == req[CHOOSE d \in Calls : /\ req[d] # <<>>
                                     /\ \A e \in Calls : req[e] # <<>> => e <= d][1] IN
    [maker |-> sdk.makerAddress,
     signer |-> sdk.signerAddress,
     tokenId |-> r.tokenId,
     limitPrice |-> r.limitPrice,
     shares |-> r.shares,
     side |-> r.side,
     volumeType |-> IF r.volumeType = "undefined" THEN VolumeType_SHARES ELSE r.volumeType,
     buyInputVal |-> Default(r.buyInputVal, <<"0">>),
     isStableCoin |-> IF r.isStableCoin = <<>> THEN <<TRUE>> ELSE r.isStableCoin,
     expiration |-> Undefined,
     feeRateBps |-> Undefined]

\* the argument createLimitOrder passes to buildOrderParams
OrderParamsArg(c) ==
  LET r == req[c][1] IN
    [maker |-> sdk.makerAddress,
     signer |-> sdk.signerAddress,
     tokenId |-> r.tokenId,
     limitPrice |-> r.limitPrice,
     shares |-> r.shares,
     side |-> r.side,
     volumeType |-> IF r.volumeType = "undefined" THEN VolumeType_SHARES ELSE r.volumeType,
     buyInputVal |-> Default(r.buyInputVal, <<"0">>),
     isStableCoin |-> IF r.isStableCoin = <<>> THEN <<TRUE>> ELSE r.isStableCoin,
     expiration |-> Undefined,
     feeRateBps |-> Undefined]

\* Step 1: buildOrderParams
StepBuildOrderParams(c) ==
  /\ pc[c] = "called"
  /\ LET Returned(r) ==
           IF r.ok
             THEN /\ orderParams' = [orderParams EXCEPT ![c] = <<r.val>>]
                  /\ pc' = [pc EXCEPT ![c] = "paramsBuilt"]
                  /\ UNCHANGED outcome
             ELSE /\ Threw(c, "buildOrderParams", r.err)
                  /\ UNCHANGED orderParams
     IN /\ trace' = [trace EXCEPT ![c] =
                       @ \o <<"buildOrderParams">>
                         \o (IF ValidateOrderParams(OrderParamsArg(c)) = "none"
                               THEN <<"calculateOrderAmounts">> ELSE <<>>)]
        /\ Returned(buildOrderParams(OrderParamsArg(c)))
  /\ UNCHANGED <<unitVars, topicVars, now, sdk, req, order, signedOrder, apiPayload, signerOutput,
                 clockRead>>

\* Step 2, first half: buildSignedOrder creates the order
StepCreateOrder(c) ==
  /\ pc[c] = "paramsBuilt"
  /\ LET r == createOrder(orderParams[c][1], now) IN
       /\ trace' = [trace EXCEPT ![c] = @ \o <<"buildSignedOrder", "createOrder">>]
       /\ clockRead' = [clockRead EXCEPT ![c] = <<now>>]
       /\ IF r.ok
            THEN /\ order' = [order EXCEPT ![c] = <<r.val>>]
                 /\ pc' = [pc EXCEPT ![c] = "orderCreated"]
                 /\ UNCHANGED outcome
            ELSE /\ Threw(c, "createOrder", r.err)
                 /\ UNCHANGED order
  /\ UNCHANGED <<unitVars, topicVars, now, sdk, req, orderParams, signedOrder, apiPayload,
                 signerOutput>>

\* Step 2, second half: buildSignedOrder awaits signOrder
StepSignOrder(c) ==
  /\ pc[c] = "orderCreated"
  /\ LET Returned(raw, r) ==
           /\ signerOutput' = [signerOutput EXCEPT ![c] =
                                 IF raw.ok THEN <<raw.val>> ELSE <<>>]
           /\ IF r.ok
                THEN /\ signedOrder' = [signedOrder EXCEPT ![c] = <<r.val>>]
                     /\ pc' = [pc EXCEPT ![c] = "signed"]
                     /\ UNCHANGED outcome
                ELSE /\ Threw(c, "signOrder", r.err)
                     /\ UNCHANGED signedOrder
     IN /\ trace' = [trace EXCEPT ![c] = @ \o <<"signOrder">>]
        /\ Returned(signTypedData(sdk.wallet, EIP712_DOMAIN, EIP712_TYPES_Order,
                                  order[c][1]),
                    signOrder(sdk.wallet, order[c][1]))
  /\ UNCHANGED <<unitVars, topicVars, now, sdk, req, orderParams, order, apiPayload, clockRead>>

\* Step 3: buildApiPayload
StepBuildApiPayload(c) ==
  /\ pc[c] = "signed"
  /\ apiPayload' = [apiPayload EXCEPT ![c] =
       <<buildApiPayload([signedOrder |-> signedOrder[c][1],
                          topicId |-> req[c][1].topicId,
                          limitPrice |-> req[c][1].limitPrice,
                          collateralTokenAddr |-> sdk.collateralTokenAddr,
                          chainId |-> sdk.chainId,
                          isStableCoin |-> IF req[c][1].isStableCoin = <<>>
                                             THEN <<TRUE>> ELSE req[c][1].isStableCoin,
                          safeRate |-> Default(req[c][1].safeRate, <<"0">>)], now)>>]
  /\ clockRead' = [clockRead EXCEPT ![c] = @ \o <<now>>]
  /\ pc' = [pc EXCEPT ![c] = "payloadBuilt"]
  /\ trace' = [trace EXCEPT ![c] = @ \o <<"buildApiPayload">>]
  /\ UNCHANGED <<unitVars, topicVars, now, sdk, req, orderParams, order, signedOrder, outcome,
                 signerOutput>>

\* what the transport and the API can answer to a submission
SubmitResults == { "errno0", "ApiError", "TransportError" }

\* Step 4: submitOrder posts the payload; the answer decides the result
StepSubmitOrder(c) ==
  /\ pc[c] = "payloadBuilt"
  /\ trace' = [trace EXCEPT ![c] = @ \o <<"submitOrder">>]
  /\ \E answer \in SubmitResults :
       IF answer = "errno0"
         THEN /\ outcome' = [outcome EXCEPT ![c] =
                   <<[ok |-> TRUE, err |-> "none", stage |-> "submitOrder"]>>]
              /\ pc' = [pc EXCEPT ![c] = "done"]
         ELSE Threw(c, "submitOrder", answer)
  /\ UNCHANGED <<unitVars, topicVars, now, sdk, req, orderParams, order, signedOrder, apiPayload,
                 signerOutput, clockRead>>

\* the millisecond clock advances
Tick ==
  /\ now < ClockStart + MaxTicks
  /\ now' = now + 1
  /\ UNCHANGED <<unitVars, topicVars, sdkVars>>

Init ==
  /\ InitSdk
  /\ NoTopicCalls
  /\ now = ClockStart
  /\ args = [fn |-> "none"]
  /\ ret = <<>>

Next ==
  \/ \E c \in Calls : CreateLimitOrder(c)
  \/ \E c \in Calls : StepBuildOrderParams(c)
  \/ \E c \in Calls : StepCreateOrder(c)
  \/ \E c \in Calls : StepSignOrder(c)
  \/ \E c \in Calls : StepBuildApiPayload(c)
  \/ \E c \in Calls : StepSubmitOrder(c)
  \/ Tick

Spec == Init /\ [][Next]_vars

(***************************************************************************)
(* Unit harness: one call of one function on drawn arguments.              *)
(***************************************************************************)
UnitCalls ==
  { [fn |-> "calculateAmountWithBigInt", shares |-> s, price |-> p]
      : s \in ShareInputs, p \in PriceInputs }
  \cup { [fn |-> "calculateAmountWithBigInt", shares |-> s, price |-> p]
           : s \in LongFractionShares, p \in LongFractionPrices }
  \cup { [fn |-> "formatPriceWithBigInt", limitPrice |-> p] : p \in PercentInputs }
  \cup { [fn |-> "calculateOrderAmounts",
          params |-> [side |-> sd, shares |-> s, limitPrice |-> p, volumeType |-> v,
                      buyInputVal |-> b, isStableCoin |-> st]]
          : sd \in SideInputs, s \in OrderShareInputs, p \in LimitPriceInputs,
            v \in VolumeTypeInputs, b \in BuyInputVals, st \in StableInputs }
  \cup { [fn |-> "createOrder",
          params |-> [maker |-> m, signer |-> sg, tokenId |-> <<"7">>,
                      makerAmount |-> <<"1">>, takerAmount |-> <<"2">>, side |-> sd,
                      expiration |-> e, feeRateBps |-> f,
                      taker |-> t, nonce |-> n, signatureType |-> st]]
          : m \in AddressInputs, sg \in AddressInputs, sd \in {Side_BUY, Side_SELL},
            e \in {Undefined, <<"5">>}, f \in {Undefined, <<"9">>},
            t \in {Undefined, MakerConfig}, n \in {Undefined, <<"9">>},
            st \in {<<>>, <<0>>} }
  \cup { [fn |-> "toWei", amount |-> a] : a \in WeiInputs }
  \cup { [fn |-> "fromWei", wei |-> x] : x \in BaseUnitInputs }
  \cup { [fn |-> "buildOrderParams",
          params |-> [maker |-> MakerConfig, signer |-> WalletAddress("key1"),
                      tokenId |-> <<"7">>, limitPrice |-> p, shares |-> s, side |-> sd,
                      volumeType |-> v, buyInputVal |-> b, isStableCoin |-> st,
                      expiration |-> Undefined, feeRateBps |-> Undefined]]
          : p \in LimitPriceInputs, s \in OrderShareInputs, sd \in SideInputs,
            v \in VolumeTypeInputs, b \in BuyInputVals, st \in StableInputs }

InitUnit ==
  /\ InitSdk
  /\ NoTopicCalls
  /\ args \in UnitCalls
  /\ now \in (IF args.fn = "createOrder" THEN Clocks ELSE {ClockStart})
  /\ ret = <<>>

CallCalculateAmount ==
  /\ args.fn = "calculateAmountWithBigInt"
  /\ ret = <<>>
  /\ ret' = <<calculateAmountWithBigInt(args.shares, args.price)>>
  /\ UNCHANGED <<args, now, sdkVars, topicVars>>

CallFormatPrice ==
  /\ args.fn = "formatPriceWithBigInt"
  /\ ret = <<>>
  /\ ret' = <<formatPriceWithBigInt(args.limitPrice)>>
  /\ UNCHANGED <<args, now, sdkVars, topicVars>>

CallCalculateOrderAmounts ==
  /\ args.fn = "calculateOrderAmounts"
  /\ ret = <<>>
  /\ ret' = <<calculateOrderAmounts(args.params)>>
  /\ UNCHANGED <<args, now, sdkVars, topicVars>>

CallCreateOrder ==
  /\ args.fn = "createOrder"
  /\ ret = <<>>
  /\ ret' = <<createOrder(args.params, now)>>
  /\ UNCHANGED <<args, now, sdkVars, topicVars>>

CallToWei ==
  /\ args.fn = "toWei"
  /\ ret = <<>>
  /\ ret' = <<toWei(args.amount)>>
  /\ UNCHANGED <<args, now, sdkVars, topicVars>>

CallFromWei ==
  /\ args.fn = "fromWei"
  /\ ret = <<>>
  /\ ret' = <<fromWei(args.wei)>>
  /\ UNCHANGED <<args, now, sdkVars, topicVars>>

CallBuildOrderParams ==
  /\ args.fn = "buildOrderParams"
  /\ ret = <<>>
  /\ ret' = <<buildOrderParams(args.params)>>
  /\ UNCHANGED <<args, now, sdkVars, topicVars>>

NextUnit ==
  \/ CallCalculateAmount
  \/ CallFormatPrice
  \/ CallCalculateOrderAmounts
  \/ CallCreateOrder
  \/ CallBuildOrderParams
  \/ CallToWei
  \/ CallFromWei

UnitSpec == InitUnit /\ [][NextUnit]_vars

(***************************************************************************)
(* TopicAPI.getTopicInfo and OpinionTradeSDK.createOrderByTopic, step by   *)
(* step: two calls for one topic share the cache file and the clock.       *)
(***************************************************************************)
\* a call ends with a thrown error
TopicFailed(call, err) == [call EXCEPT !.pc = "failed", !.out = <<Err(err)>>]

\* getTopicInfo returns info: to the caller, or into createOrderByTopic
TopicReturned(call, info) ==
  IF call.req[1].kind = "getTopicInfo"
    THEN [call EXCEPT !.pc = "done", !.info = <<info>>, !.out = <<Ok(info)>>]
    ELSE [call EXCEPT !.pc = "selecting", !.info = <<info>>]

\* createOrderByTopic accepting every position as a NO
PositionRejectedNever(position) == "none"

\* createOrderByTopic: the validation of position, "none" when it passes
PositionRejected(position) ==
  IF position = Undefined THEN "TypeError"
  ELSE IF toUpperCase(position) # <<"Y", "E", "S">> /\ toUpperCase(position) # <<"N", "O">>
    THEN "PositionError"
  ELSE "none"

\* a caller invokes getTopicInfo(topicId, forceRefresh) or
\* createOrderByTopic(params); the latter validates position first
InvokeTopicCall(p) ==
  /\ topicCall[p].pc = "idle"
  /\ IF p = 1 THEN TRUE ELSE topicCall[p - 1].pc # "idle"
  /\ \E r \in TopicRequests :
       LET call == [topicCall[p] EXCEPT !.req = <<r>>] IN
         topicCall' = [topicCall EXCEPT ![p] =
           IF r.kind = "createOrderByTopic" /\ PositionRejected(r.position) # "none"
             THEN TopicFailed(call, PositionRejected(r.position))
           ELSE IF r.forceRefresh THEN [call EXCEPT !.pc = "fetching"]
           ELSE [call EXCEPT !.pc = "loading"]]
  /\ UNCHANGED <<unitVars, now, sdkVars, cacheFile, saved>>

\* getTopicInfo without forceRefresh: loadFromCache reads the file and the clock
LoadFromCache(p) ==
  /\ topicCall[p].pc = "loading"
  /\ LET Loaded(call, cached) ==
           IF cached.hit THEN TopicReturned(call, cached.data[1])
           ELSE [call EXCEPT !.pc = "fetching"]
     IN topicCall' = [topicCall EXCEPT ![p] =
          Loaded([@ EXCEPT !.load = <<[content |-> cacheFile, at |-> now]>>],
                 loadFromCache(cacheFile, now))]
  /\ UNCHANGED <<unitVars, now, sdkVars, cacheFile, saved>>

\* getTopicInfo: the request to the API and parseTopicInfo on its answer
FetchTopic(p) ==
  /\ topicCall[p].pc = "fetching"
  /\ \/ \E d \in ValidResponses :
          topicCall' = [topicCall EXCEPT ![p] =
            [@ EXCEPT !.pc = "saving", !.fetch = <<Ok(parseTopicInfo(d))>>]]
     \/ \E f \in FetchFailures :
          topicCall' = [topicCall EXCEPT ![p] =
            TopicFailed([@ EXCEPT !.fetch = <<Err(f)>>], f)]
  /\ UNCHANGED <<unitVars, now, sdkVars, cacheFile, saved>>

\* saveToCache: after ensureCacheDir, the entry is built with the clock value
BuildCacheEntry(p) ==
  /\ topicCall[p].pc = "saving"
  /\ topicCall' = [topicCall EXCEPT ![p] =
       [@ EXCEPT !.pc = "opening",
                 !.entry = <<[timestamp |-> now, topicId |-> TopicId,
                              data |-> topicCall[p].fetch[1].val]>>]]
  /\ UNCHANGED <<unitVars, now, sdkVars, cacheFile, saved>>

\* fs.writeFile opens the file, which empties it; when the open fails the
\* error is logged and getTopicInfo returns what it fetched
OpenCacheFile(p) ==
  /\ topicCall[p].pc = "opening"
  /\ \/ /\ cacheFile' = EmptyStr
        /\ topicCall' = [topicCall EXCEPT ![p] = [@ EXCEPT !.pc = "writing"]]
     \/ /\ cacheFile' = cacheFile
        /\ topicCall' = [topicCall EXCEPT ![p] = TopicReturned(@, @.fetch[1].val)]
  /\ UNCHANGED <<unitVars, now, sdkVars, saved>>

\* fs.writeFile writes the text; when the write fails the error is logged;
\* either way getTopicInfo returns what it fetched
WriteCacheFile(p) ==
  /\ topicCall[p].pc = "writing"
  /\ \/ /\ cacheFile' = WriteAtStart(cacheFile, JsonStringify(topicCall[p].entry[1]))
        /\ saved' = Append(saved, p)
     \/ /\ cacheFile' = cacheFile
        /\ saved' = saved
  /\ topicCall' = [topicCall EXCEPT ![p] = TopicReturned(@, @.fetch[1].val)]
  /\ UNCHANGED <<unitVars, now, sdkVars>>

\* the createLimitOrder call createOrderByTopic makes at its end
LimitOrderByTopic(tokenId) ==
  [topicId |-> TopicId, tokenId |-> tokenId, limitPrice |-> <<"9", "9">>,
   shares |-> <<"1", "0", ".", "0", "0">>, side |-> Side_SELL,
   volumeType |-> VolumeType_SHARES, buyInputVal |-> <<"0">>,
   isStableCoin |-> <<TRUE>>, safeRate |-> <<"0">>]

\* createOrderByTopic after getTopicInfo: the token of the position, an error
\* when it is missing, createLimitOrder otherwise
SelectToken(p) ==
  /\ topicCall[p].pc = "selecting"
  /\ LET Selected(call, tokenId) ==
           IF Falsy(tokenId) \/ tokenId = Null
             THEN TopicFailed(call, "TokenNotFound")
             ELSE [call EXCEPT !.pc = "done",
                               !.invoked = <<LimitOrderByTopic(tokenId)>>]
     IN topicCall' = [topicCall EXCEPT ![p] =
          Selected(@, IF toUpperCase(@.req[1].position) = <<"Y", "E", "S">>
                        THEN @.info[1].yesToken ELSE @.info[1].noToken)]
  /\ UNCHANGED <<unitVars, now, sdkVars, cacheFile, saved>>

\* the clock advances by half of maxAge
TopicTick ==
  /\ now < TopicClockStart + MaxTopicTicks * (maxAge \div 2)
  /\ now' = now + (maxAge \div 2)
  /\ UNCHANGED <<unitVars, sdkVars, topicVars>>

\* the cache file at the start: absent, or an entry an earlier run saved
InitTopic ==
  /\ InitSdk
  /\ args = [fn |-> "none"]
  /\ ret = <<>>
  /\ now = TopicClockStart
  /\ cacheFile \in { NoFile }
       \cup { JsonStringify([timestamp |-> TopicClockStart, topicId |-> TopicId,
                             data |-> i]) : i \in TopicInfos }
  /\ topicCall = [p \in TopicCalls |-> IdleTopicCall]
  /\ saved = <<>>

NextTopic ==
  \/ \E p \in TopicCalls : InvokeTopicCall(p)
  \/ \E p \in TopicCalls : LoadFromCache(p)
  \/ \E p \in TopicCalls : FetchTopic(p)
  \/ \E p \in TopicCalls : BuildCacheEntry(p)
  \/ \E p \in TopicCalls : OpenCacheFile(p)
  \/ \E p \in TopicCalls : WriteCacheFile(p)
  \/ \E p \in TopicCalls : SelectToken(p)
  \/ TopicTick

TopicSpec == InitTopic /\ [][NextTopic]_vars

(***************************************************************************)
(* Properties.                                                             *)
(***************************************************************************)
\* r = shares * price / 100 as rationals:
\* digits(r) * 10^(a+b+2) = digits(shares) * digits(price) * 10^(fraction digits of r)
ExactAmount(r, shares, price) ==
  LET a == Len(FracPartOf(shares))
      b == Len(FracPartOf(price))
      n == StrToNat(IntPartOf(shares) \o FracPartOf(shares))
             * StrToNat(IntPartOf(price) \o FracPartOf(price))
  IN /\ IsDecimal(r)
     /\ StripZeroChars(IntPartOf(r) \o FracPartOf(r) \o Rep("0", a + b + 2))
          = StripZeroChars(NatToString(n) \o Rep("0", Len(FracPartOf(r))))

AmountCase ==
  /\ args.fn = "calculateAmountWithBigInt"
  /\ ret # <<>>
  /\ IsPositive(args.shares)
  /\ InPercentRange(args.price)
  /\ Len(FracPartOf(args.shares)) + Len(FracPartOf(args.price)) <= 4

\* C1: for shares > 0 and price in [0,100] whose fractional digit counts sum
\* to at most 4, calculateAmountWithBigInt returns exactly shares*price/100
\* (the rendered result equals the rational, nothing is rounded or cut).
C1_AmountExact ==
  AmountCase => ret[1].ok /\ ExactAmount(ret[1].val, args.shares, args.price)

\* shares "1.5" at price "99.11" gives "1.48665"
C1_Witness ==
  /\ AmountCase
  /\ args.shares = <<"1", ".", "5">>
  /\ args.price = <<"9", "9", ".", "1", "1">>
  /\ ret[1] = Ok(<<"1", ".", "4", "8", "6", "6", "5">>)

\* thousandths of p/100, truncated: floor(digits(p) * 10 / 10^(fraction digits))
TruncatedThousandths(p) ==
  LET b == Len(FracPartOf(p))
      n == StrToNat(IntPartOf(p) \o FracPartOf(p))
  IN IF b = 0 THEN n * 10
     ELSE IF b = 1 THEN n
     ELSE StrToNat(SubSeq(IntPartOf(p) \o FracPartOf(p), 1, Len(IntPartOf(p)) + 1))

PriceCase ==
  /\ args.fn = "formatPriceWithBigInt"
  /\ ret # <<>>
  /\ InPercentRange(args.limitPrice)

HasThreeDecimalsOf(r, n) ==
  /\ IsDecimal(r)
  /\ Len(FracPartOf(r)) = 3
  /\ Len(IntPartOf(r)) >= 1
  /\ StrToNat(IntPartOf(r) \o FracPartOf(r)) = n

\* C3: for every decimal percentage p in [0,100], formatPriceWithBigInt(p) has
\* exactly 3 fractional digits and its value is p/100 truncated toward zero at
\* the third decimal place.
C3_PriceTruncated ==
  PriceCase =>
    ret[1].ok /\ HasThreeDecimalsOf(ret[1].val, TruncatedThousandths(args.limitPrice))

\* the amount calculateOrderAmounts derives: shares * price / 100 in Shares
\* mode (the price rescaled by 100 for a non-stable collateral), the caller's
\* buyInputVal in Amount mode
OrderAmount(params) ==
  IF params.volumeType = VolumeType_SHARES
    THEN calculateAmountWithBigInt(
           params.shares,
           IF params.isStableCoin = <<TRUE>> THEN params.limitPrice
           ELSE StringOf100TimesNumber(params.limitPrice))
    ELSE Ok(params.buyInputVal)

OrderAmountsCase ==
  /\ args.fn = "calculateOrderAmounts"
  /\ ret # <<>>
  /\ args.params.side \in {Side_BUY, Side_SELL}

\* C2: calculateOrderAmounts gives BUY makerAmount = toWei(amount) and
\* takerAmount = toWei(shares), and SELL makerAmount = toWei(shares) and
\* takerAmount = toWei(amount); with every other input fixed, switching the
\* side swaps the two amounts (and a call that throws throws on both sides).
C2_SideSwapsAmounts ==
  OrderAmountsCase =>
    LET prm == args.params
        r == ret[1]
        Mapped(amountWei, sharesWei, flipped) ==
          /\ r.ok = flipped.ok
          /\ r.ok <=> (amountWei.ok /\ sharesWei.ok)
          /\ r.ok =>
               /\ prm.side = Side_BUY =>
                    /\ r.val.makerAmount = amountWei.val
                    /\ r.val.takerAmount = sharesWei.val
               /\ prm.side = Side_SELL =>
                    /\ r.val.makerAmount = sharesWei.val
                    /\ r.val.takerAmount = amountWei.val
               /\ r.val.makerAmount = flipped.val.takerAmount
               /\ r.val.takerAmount = flipped.val.makerAmount
        WeiOf(amount) == IF amount.ok THEN toWei(amount.val) ELSE amount
    IN Mapped(WeiOf(OrderAmount(prm)), toWei(prm.shares),
              calculateOrderAmounts([prm EXCEPT !.side = 1 - prm.side]))

\* selling "10.00" shares at "99": maker gives 10 * 10^18, taker 9.9 * 10^18
C2_Witness ==
  /\ OrderAmountsCase
  /\ args.params.side = Side_SELL
  /\ args.params.shares = <<"1", "0", ".", "0", "0">>
  /\ args.params.limitPrice = <<"9", "9">>
  /\ args.params.volumeType = VolumeType_SHARES
  /\ args.params.isStableCoin = <<TRUE>>
  /\ ret[1] = Ok([makerAmount |-> <<"1">> \o Rep("0", 19),
                  takerAmount |-> <<"9", "9">> \o Rep("0", 17)])

(***************************************************************************)
(* Properties of the createLimitOrder pipeline.                            *)
(***************************************************************************)
Started(c) == req[c] # <<>>

IsStableRequest(c) == req[c][1].isStableCoin # <<FALSE>>

\* C4: the price field of the payload is, for a stable collateral, limitPrice/100
\* truncated to 3 decimals and written with exactly 3 decimals ("99" gives
\* "0.990"); for a non-stable collateral it is the limitPrice as given.
C4_WirePrice ==
  \A c \in Calls :
    (apiPayload[c] # <<>> /\ InPercentRange(req[c][1].limitPrice)) =>
      IF IsStableRequest(c)
        THEN HasThreeDecimalsOf(apiPayload[c][1].price,
                                TruncatedThousandths(req[c][1].limitPrice))
        ELSE apiPayload[c][1].price = req[c][1].limitPrice

ValidationErrors == { "MissingRequiredParameters", "InvalidSide", "LimitPriceOutOfRange" }

StagesAfterValidation ==
  { "calculateOrderAmounts", "buildSignedOrder", "createOrder", "signOrder",
    "buildApiPayload", "submitOrder" }

Invoked(c) == { trace[c][i] : i \in 1..Len(trace[c]) }

\* C5: once buildOrderParams has run on a limitPrice that is not a number in
\* [0,100], the call has failed there with a validation error, and neither
\* calculateOrderAmounts nor signing, payload construction or submission was
\* invoked for that call.
C5_BadPriceRejected ==
  \A c \in Calls :
    (Started(c) /\ pc[c] # "called" /\ ~InPercentRange(req[c][1].limitPrice)) =>
      /\ pc[c] = "failed"
      /\ outcome[c][1].stage = "buildOrderParams"
      /\ outcome[c][1].err \in ValidationErrors
      /\ Invoked(c) \cap StagesAfterValidation = {}

MainStages ==
  <<"buildOrderParams", "createOrder", "signOrder", "buildApiPayload", "submitOrder">>

IsMainStage(f) == \E i \in 1..Len(MainStages) : MainStages[i] = f

StagesRun(c) == SelectSeq(trace[c], IsMainStage)

\* the error the named stage raises on the state the call had when it ran
StageErrors(c, stage) ==
  CASE stage = "buildOrderParams" -> { buildOrderParams(OrderParamsArg(c)).err }
    [] stage = "createOrder" -> { "TypeError" }
    [] stage = "signOrder" -> { "FailedToSignOrder" }
    [] stage = "buildApiPayload" -> {}
    [] stage = "submitOrder" -> { "ApiError", "TransportError" }

\* C6: the stages of a createLimitOrder call run in the order buildOrderParams,
\* createOrder, signOrder, buildApiPayload, submitOrder, each at most once; a
\* call that failed reports the error of the last stage that ran, as a failure,
\* and ran no stage after it; a call returns a success only after all five
\* stages; submitOrder runs only with a signed order and its payload.
C6_StagesInOrder ==
  \A c \in Calls :
    Started(c) =>
      LET ran == StagesRun(c) IN
        /\ ran = SubSeq(MainStages, 1, Len(ran))
        /\ outcome[c] # <<>> <=> pc[c] \in {"failed", "done"}
        /\ pc[c] = "failed" =>
             /\ ran # <<>>
             /\ ~outcome[c][1].ok
             /\ outcome[c][1].stage = ran[Len(ran)]
             /\ outcome[c][1].err \in StageErrors(c, ran[Len(ran)])
        /\ pc[c] = "done" =>
             /\ outcome[c][1].ok
             /\ ran = MainStages
        /\ "submitOrder" \in Invoked(c) =>
             /\ signedOrder[c] # <<>>
             /\ signerOutput[c] # <<>>
             /\ signedOrder[c][1].signature = signerOutput[c][1]
             /\ apiPayload[c] # <<>>

\* one call failed in signOrder after two stages, the other ran all five
C6_Witness ==
  \E c, d \in Calls :
    /\ pc[c] = "failed"
    /\ outcome[c][1].stage = "signOrder"
    /\ StagesRun(c) = SubSeq(MainStages, 1, 3)
    /\ signedOrder[c] = <<>>
    /\ pc[d] = "done"
    /\ StagesRun(d) = MainStages

DifferOnlyInSalt(o1, o2) ==
  /\ o1.salt # o2.salt
  /\ [o1 EXCEPT !.salt = o2.salt] = o2

C8_RawSignature ==
  \A c \in Calls :
    /\ signedOrder[c] # <<>> =>
         /\ signerOutput[c] # <<>>
         /\ signedOrder[c][1].signature = signerOutput[c][1]
         /\ signedOrder[c][1].signature.head = EmptyStr
         /\ signedOrder[c][1].signature
              # encodeGnosisSafeSignature(order[c][1].signer, signerOutput[c][1])
         /\ "encodeGnosisSafeSignature" \notin Invoked(c)
    /\ apiPayload[c] # <<>> =>
         /\ apiPayload[c][1].signature = signerOutput[c][1]
         /\ apiPayload[c][1].sign = signerOutput[c][1]

\* a submitted payload carrying the raw signature
C8_Witness ==
  \E c \in Calls :
    /\ pc[c] = "done"
    /\ apiPayload[c][1].signature = signerOutput[c][1]
    /\ apiPayload[c][1].signature.head = EmptyStr
    /\ apiPayload[c][1].salt = <<"1", "4", "9", "9">>

CreateOrderCase ==
  /\ args.fn = "createOrder"
  /\ ret # <<>>
  /\ ret[1].ok

\* C9: an order returned by createOrder has taker 0x followed by 40 zeros,
\* nonce "0" and signatureType 2, whatever the caller passed, taker, nonce and
\* signatureType of its own included; expiration and feeRateBps are "0" when
\* the caller passed none and the caller's value otherwise.
C9_FixedOrderFields ==
  CreateOrderCase =>
    LET o == ret[1].val
        prm == args.params
    IN /\ o.taker = <<"0", "x">> \o Rep("0", 40)
       /\ o.nonce = <<"0">>
       /\ o.signatureType = 2
       /\ o.expiration = (IF prm.expiration = Undefined THEN <<"0">> ELSE prm.expiration)
       /\ o.feeRateBps = (IF prm.feeRateBps = Undefined THEN <<"0">> ELSE prm.feeRateBps)

\* the caller passed a taker, a nonce and a signatureType, and no expiration
\* or fee rate: the order has the fixed values and the "0" defaults
C9_Witness ==
  /\ CreateOrderCase
  /\ args.params.taker = MakerConfig
  /\ args.params.nonce = <<"9">>
  /\ args.params.signatureType = <<0>>
  /\ args.params.expiration = Undefined
  /\ args.params.feeRateBps = Undefined
  /\ ret[1].val.taker = <<"0", "x">> \o Rep("0", 40)
  /\ ret[1].val.nonce = <<"0">>
  /\ ret[1].val.signatureType = 2
  /\ ret[1].val.expiration = <<"0">>
  /\ ret[1].val.feeRateBps = <<"0">>

\* the text is the decimal numeral of n: digits, no leading zero, value n
IsDecimalNumeralOf(text, n) ==
  /\ text # EmptyStr
  /\ IsDigits(text)
  /\ Len(text) > 1 => text[1] # "0"
  /\ StrToNat(text) = n

\* C10: the salt of every order is the decimal numeral of the millisecond
\* clock value createOrder read in that call; two calls of one signer that
\* read different clock values have different salts, and two calls that read
\* the same millisecond have equal salts.
C10_SaltIsClock ==
  \A c, d \in Calls :
    (order[c] # <<>> /\ order[d] # <<>>) =>
      /\ IsDecimalNumeralOf(order[c][1].salt, clockRead[c][1])
      /\ order[c][1].signer = order[d][1].signer
      /\ clockRead[c][1] # clockRead[d][1] => order[c][1].salt # order[d][1].salt
      /\ clockRead[c][1] = clockRead[d][1] => order[c][1].salt = order[d][1].salt

\* the collision: two calls of one signer created their orders in the same
\* millisecond and carry the same salt
C10_Witness ==
  /\ order[1] # <<>>
  /\ order[2] # <<>>
  /\ clockRead[1] = clockRead[2]
  /\ order[1][1].signer = order[2][1].signer
  /\ order[1][1].salt = order[2][1].salt
  /\ order[1][1].salt = <<"1", "4", "9", "9">>

OrderFields ==
  { "salt", "maker", "signer", "taker", "tokenId", "makerAmount", "takerAmount",
    "expiration", "nonce", "feeRateBps", "side", "signatureType" }

CopiedFields ==
  { "salt", "maker", "signer", "taker", "tokenId", "makerAmount", "takerAmount",
    "expiration", "nonce", "feeRateBps" }

\* the decimal text of 0, 1 or 2, spelled out
SmallNumeral(n) == CASE n = 0 -> <<"0">> [] n = 1 -> <<"1">> [] n = 2 -> <<"2">>

\* C11: the order handed to signOrder is still the order createOrder made from
\* the order parameters; the signed order is that order plus exactly a
\* signature field; the payload copies salt, maker, signer, taker, tokenId,
\* makerAmount, takerAmount, expiration, nonce and feeRateBps from the signed
\* order, carries side and signatureType as decimal text, orderExpTime equal
\* to expiration, and the signed order's signature as signature and as sign.
C11_NoMutationAfterSigning ==
  \A c \in Calls :
    /\ signedOrder[c] # <<>> =>
         /\ order[c][1] = createOrder(orderParams[c][1], clockRead[c][1]).val
         /\ DOMAIN signedOrder[c][1] = OrderFields \cup {"signature"}
         /\ \A f \in OrderFields : signedOrder[c][1][f] = order[c][1][f]
    /\ apiPayload[c] # <<>> =>
         /\ \A f \in CopiedFields : apiPayload[c][1][f] = signedOrder[c][1][f]
         /\ apiPayload[c][1].side = SmallNumeral(signedOrder[c][1].side)
         /\ apiPayload[c][1].signatureType = SmallNumeral(signedOrder[c][1].signatureType)
         /\ apiPayload[c][1].orderExpTime = signedOrder[c][1].expiration
         /\ apiPayload[c][1].signature = signedOrder[c][1].signature
         /\ apiPayload[c][1].sign = signedOrder[c][1].signature

\* a SELL order was signed and its payload built: side "1", signatureType "2"
C11_Witness ==
  \E c \in Calls :
    /\ apiPayload[c] # <<>>
    /\ signedOrder[c][1].side = Side_SELL
    /\ apiPayload[c][1].side = <<"1">>
    /\ apiPayload[c][1].signatureType = <<"2">>
    /\ apiPayload[c][1].nonce = order[c][1].nonce
    /\ apiPayload[c][1].makerAmount = orderParams[c][1].makerAmount

IsLowerCase(text) == toLowerCase(text) = text

\* C12: createOrder returns an order only for a well-formed maker and a
\* well-formed signer, both lowercased in the order; for a maker or signer
\* that is a text but not a well-formed address it throws the address error.
C12_AddressesValidated ==
  (/\ args.fn = "createOrder"
   /\ ret # <<>>
   /\ args.params.maker # Undefined
   /\ args.params.signer # Undefined) =>
    /\ ret[1].ok =>
         /\ isValidAddress(ret[1].val.maker)
         /\ isValidAddress(ret[1].val.signer)
         /\ IsLowerCase(ret[1].val.maker)
         /\ IsLowerCase(ret[1].val.signer)
    /\ (~isValidAddress(args.params.maker) \/ ~isValidAddress(args.params.signer)) =>
         (~ret[1].ok /\ ret[1].err = "InvalidAddress")

\* the function of the unit call, applied to other parameters
ApplyCalled(params) ==
  IF args.fn = "buildOrderParams" THEN buildOrderParams(params)
  ELSE calculateOrderAmounts(params)

AmountsCallCase ==
  /\ args.fn \in {"calculateOrderAmounts", "buildOrderParams"}
  /\ ret # <<>>

\* C13: given a side other than 0 (BUY) and 1 (SELL), buildOrderParams and
\* calculateOrderAmounts both throw and return no amounts; when the same call
\* with side BUY succeeds, the error is the one naming the side.
C13_InvalidSideRejected ==
  (AmountsCallCase /\ args.params.side \notin {0, 1}) =>
    /\ ~ret[1].ok
    /\ ApplyCalled([args.params EXCEPT !.side = 0]).ok => ret[1].err = "InvalidSide"

BuildOrderParamsCase ==
  /\ args.fn = "buildOrderParams"
  /\ ret # <<>>

SharesMode(params) == params.volumeType \in {VolumeType_SHARES, "undefined"}

MissingOrNotPositive(text) ==
  \/ text = Undefined
  \/ text = EmptyStr
  \/ text[1] = "-"
  \/ ~IsPositive(text)

\* C14: with a valid side and limitPrice, buildOrderParams in Shares mode on
\* a missing or non-positive shares fails with an error naming shares and
\* nothing else, and in Amount mode on a missing buyInputVal fails with an
\* error naming buyInputVal and nothing else.
C14_MissingQuantityNamed ==
  (/\ BuildOrderParamsCase
   /\ args.params.side \in {Side_BUY, Side_SELL}
   /\ InPercentRange(args.params.limitPrice)) =>
    /\ (SharesMode(args.params) /\ MissingOrNotPositive(args.params.shares)) =>
         (~ret[1].ok /\ FieldsNamedBy(ret[1].err) = {"shares"})
    /\ (args.params.volumeType = VolumeType_AMOUNT /\ args.params.buyInputVal = Undefined) =>
         (~ret[1].ok /\ FieldsNamedBy(ret[1].err) = {"buyInputVal"})

IsNegativeText(text) == text # Undefined /\ text # EmptyStr /\ text[1] = "-"

\* C15: buildOrderParams throws on a negative shares, a negative limitPrice,
\* and in Amount mode a negative buyInputVal; the makerAmount and takerAmount
\* of every order-parameter record it returns are not negative.
C15_NegativesRejected ==
  BuildOrderParamsCase =>
    /\ (\/ IsNegativeText(args.params.shares)
        \/ IsNegativeText(args.params.limitPrice)
        \/ /\ args.params.volumeType = VolumeType_AMOUNT
           /\ IsNegativeText(args.params.buyInputVal)) => ~ret[1].ok
    /\ ret[1].ok =>
         /\ ~IsNegativeText(ret[1].val.makerAmount)
         /\ ~IsNegativeText(ret[1].val.takerAmount)

SignOrderReturned(c) ==
  /\ signedOrder[c] # <<>>
  /\ signerOutput[c] # <<>>
  /\ DOMAIN signedOrder[c][1] = OrderFields \cup {"signature"}
  /\ signedOrder[c][1].signature = signerOutput[c][1]
  /\ signedOrder[c][1].signature.body.key = sdk.wallet
  /\ Len(signedOrder[c][1].signature.body.digest) = 12
  /\ ~(pc[c] = "failed" /\ outcome[c][1].stage = "signOrder")

SignOrderThrew(c) ==
  /\ signedOrder[c] = <<>>
  /\ pc[c] = "failed"
  /\ outcome[c][1].stage = "signOrder"
  /\ outcome[c][1].err = "FailedToSignOrder"
  /\ Invoked(c) \cap {"buildApiPayload", "submitOrder"} = {}

\* C16: once signOrder has run in a call, either it returned the order with
\* the complete signature the wallet produced over the 12 fields, or it threw
\* the 'Failed to sign order' error, no signed order exists and the call
\* ended there; never both, never a signed order without that signature.
C16_SignOrderOutcomes ==
  \A c \in Calls :
    "signOrder" \in Invoked(c) =>
      /\ SignOrderReturned(c) \/ SignOrderThrew(c)
      /\ ~(SignOrderReturned(c) /\ SignOrderThrew(c))

\* the signer rejected tokenId "x": the call failed in signOrder, unsigned
C16_Witness ==
  \E c \in Calls :
    /\ "signOrder" \in Invoked(c)
    /\ req[c][1].tokenId = <<"x">>
    /\ SignOrderThrew(c)
    /\ signerOutput[c] = <<>>

ToWeiCase ==
  /\ args.fn = "toWei"
  /\ ret # <<>>

Unsigned(text) == IF IsNegativeText(text) THEN Tail(text) ELSE text

\* a decimal numeral with an optional minus sign
IsNumericText(text) == text # Undefined /\ IsDecimal(Unsigned(text))

\* a fractional digit after the 18th that is not zero
HasDigitBeyond18(text) ==
  \E i \in 19..Len(FracPartOf(Unsigned(text))) : FracPartOf(Unsigned(text))[i] # "0"

\* wei = amount * 10^18:
\* digits(wei) * 10^(fraction digits of amount) = digits(amount) * 10^18, same sign
ExactWei(wei, amount) ==
  LET ip == IntPartOf(Unsigned(amount))
      fp == FracPartOf(Unsigned(amount))
  IN /\ IsDigits(Unsigned(wei))
     /\ wei # EmptyStr
     /\ StripZeroChars(Unsigned(wei) \o Rep("0", Len(fp)))
          = StripZeroChars(ip \o fp \o Rep("0", 18))
     /\ IsNegativeText(wei) =>
          (IsNegativeText(amount) /\ IsPositive(Unsigned(amount)))

\* C17 as stated: toWei throws its error on a text that is not a number and on
\* every decimal with more than 18 fractional digits, and what it returns
\* equals amount * 10^18.
C17_LongFractionsRejected ==
  ToWeiCase =>
    /\ (~IsNumericText(args.amount) \/ Len(FracPartOf(Unsigned(args.amount))) > 18) =>
         (~ret[1].ok /\ ret[1].err = "ToWeiError")
    /\ ret[1].ok => ExactWei(ret[1].val, args.amount)

\* C17: toWei throws its error exactly on a text that is not a number and on
\* a decimal with a non-zero fractional digit after the 18th; on every other
\* input it returns amount * 10^18, so no digit is ever cut or clamped.
C17_ExactOrError ==
  ToWeiCase =>
    IF ~IsNumericText(args.amount) \/ HasDigitBeyond18(args.amount)
      THEN ~ret[1].ok /\ ret[1].err = "ToWeiError"
      ELSE ret[1].ok /\ ExactWei(ret[1].val, args.amount)

\* "1.0000000000000000001" has a 19th fractional digit 1: toWei throws
C17_Witness ==
  /\ ToWeiCase
  /\ args.amount = <<"1", ".">> \o Rep("0", 18) \o <<"1">>
  /\ ret[1] = Err("ToWeiError")

\* a non-negative integer numeral without leading zeros
IsBaseUnitInteger(text) ==
  /\ text # Undefined
  /\ text # EmptyStr
  /\ IsDigits(text)
  /\ Len(text) > 1 => text[1] # "0"

FromWeiCase ==
  /\ args.fn = "fromWei"
  /\ ret # <<>>
  /\ IsBaseUnitInteger(args.wei)

\* C18: for every non-negative base-unit integer x without leading zeros,
\* fromWei(x) returns a decimal text and toWei of that text returns x.
C18_RoundTrip ==
  FromWeiCase =>
    /\ ret[1].ok
    /\ IsDecimal(ret[1].val)
    /\ toWei(ret[1].val) = Ok(args.wei)

\* one base unit: fromWei("1") is "0.000000000000000001", and toWei gives "1"
C18_Witness ==
  /\ FromWeiCase
  /\ args.wei = <<"1">>
  /\ ret[1] = Ok(<<"0", ".">> \o Rep("0", 17) \o <<"1">>)
  /\ toWei(ret[1].val) = Ok(<<"1">>)

AmountModeCase ==
  /\ OrderAmountsCase
  /\ args.params.volumeType = VolumeType_AMOUNT

\* C19: in Amount mode calculateOrderAmounts returns toWei(buyInputVal) as the
\* currency amount (makerAmount of a BUY, takerAmount of a SELL) and
\* toWei(shares) as the other amount, throwing exactly when one of the two
\* conversions throws; the result is the same for every limitPrice and
\* isStableCoin.
C19_AmountModeVerbatim ==
  AmountModeCase =>
    LET prm == args.params
        r == ret[1]
        Verbatim(amountWei, sharesWei) ==
          /\ r.ok <=> (amountWei.ok /\ sharesWei.ok)
          /\ r.ok =>
               IF prm.side = Side_BUY
                 THEN /\ r.val.makerAmount = amountWei.val
                      /\ r.val.takerAmount = sharesWei.val
                 ELSE /\ r.val.makerAmount = sharesWei.val
                      /\ r.val.takerAmount = amountWei.val
    IN /\ Verbatim(toWei(prm.buyInputVal), toWei(prm.shares))
       /\ \A price \in LimitPriceInputs, stable \in StableInputs :
            calculateOrderAmounts(
              [prm EXCEPT !.limitPrice = price, !.isStableCoin = stable]) = r

\* buying "10.00" shares for "9.90" at a limitPrice of "99.11": 9.9 * 10^18
\* against 10 * 10^18, not the 9.911 * 10^18 of the price
C19_Witness ==
  /\ AmountModeCase
  /\ args.params.side = Side_BUY
  /\ args.params.buyInputVal = <<"9", ".", "9", "0">>
  /\ args.params.shares = <<"1", "0", ".", "0", "0">>
  /\ args.params.limitPrice = <<"9", "9", ".", "1", "1">>
  /\ ret[1] = Ok([makerAmount |-> <<"9", "9">> \o Rep("0", 17),
                  takerAmount |-> <<"1">> \o Rep("0", 19)])

SharesModeCase ==
  /\ OrderAmountsCase
  /\ args.params.volumeType = VolumeType_SHARES
  /\ IsDecimal(args.params.shares)
  /\ IsPositive(args.params.shares)
  /\ InPercentRange(args.params.limitPrice)

\* the currency amount of a result: makerAmount of a BUY, takerAmount of a SELL
CurrencyWei(side, amounts) ==
  IF side = Side_BUY THEN amounts.makerAmount ELSE amounts.takerAmount

\* wei = shares * price * 10^18 / 10^scale:
\* digits(wei) * 10^(fraction digits + scale) = digits(shares) * digits(price) * 10^18
ExactCurrencyWei(wei, shares, price, scale) ==
  LET places == Len(FracPartOf(shares)) + Len(FracPartOf(price)) + scale
      n == StrToNat(IntPartOf(shares) \o FracPartOf(shares))
             * StrToNat(IntPartOf(price) \o FracPartOf(price))
  IN /\ IsDigits(wei)
     /\ StripZeroChars(wei \o Rep("0", places))
          = StripZeroChars(NatToString(n) \o Rep("0", 18))

\* C20: in Shares mode, for a decimal limitPrice in [0,100] and decimal shares,
\* calculateOrderAmounts with isStableCoin false returns the currency amount
\* shares * limitPrice exactly (the price times 100, then the formula's
\* division by 100), and with isStableCoin true shares * limitPrice / 100.
C20_RescaleExact ==
  (SharesModeCase /\ args.params.isStableCoin # <<>>) =>
    /\ ret[1].ok
    /\ ExactCurrencyWei(CurrencyWei(args.params.side, ret[1].val),
                        args.params.shares, args.params.limitPrice,
                        IF args.params.isStableCoin = <<TRUE>> THEN 2 ELSE 0)

\* the variables that belong to call c
CallState(c) ==
  <<pc[c], req[c], orderParams[c], order[c], signedOrder[c], apiPayload[c],
    outcome[c], trace[c], signerOutput[c], clockRead[c]>>

\* a step writes no field of the SDK instance, and a step of one call changes
\* nothing of the other call
NoSharedWrites ==
  /\ sdk' = sdk
  /\ \A c \in Calls : pc'[c] = pc[c] => CallState(c)' = CallState(c)

\* createLimitOrder on instance s alone: request r, createOrder reading clock t
AloneSign(s, o) == IF o.ok THEN signOrder(s.wallet, o.val) ELSE o

AloneCreate(s, p, t) == IF p.ok THEN AloneSign(s, createOrder(p.val, t)) ELSE p

AloneSignedOrder(s, r, t) ==
  AloneCreate(s,
              buildOrderParams(
                [maker |-> s.makerAddress,
                 signer |-> s.signerAddress,
                 tokenId |-> r.tokenId,
                 limitPrice |-> r.limitPrice,
                 shares |-> r.shares,
                 side |-> r.side,
                 volumeType |-> IF r.volumeType = "undefined"
                                  THEN VolumeType_SHARES ELSE r.volumeType,
                 buyInputVal |-> Default(r.buyInputVal, <<"0">>),
                 isStableCoin |-> IF r.isStableCoin = <<>> THEN <<TRUE>>
                                  ELSE r.isStableCoin,
                 expiration |-> Undefined,
                 feeRateBps |-> Undefined]),
              t)

\* and its payload, buildApiPayload reading clock t
AlonePayload(s, r, signed, t) ==
  buildApiPayload([signedOrder |-> signed,
                   topicId |-> r.topicId,
                   limitPrice |-> r.limitPrice,
                   collateralTokenAddr |-> s.collateralTokenAddr,
                   chainId |-> s.chainId,
                   isStableCoin |-> IF r.isStableCoin = <<>> THEN <<TRUE>>
                                    ELSE r.isStableCoin,
                   safeRate |-> Default(r.safeRate, <<"0">>)], t)

EqualsAlone(c) ==
  LET Same(alone) ==
        /\ alone.ok
        /\ signedOrder[c][1] = alone.val
        /\ apiPayload[c] # <<>> =>
             apiPayload[c][1] = AlonePayload(sdk, req[c][1], alone.val, clockRead[c][2])
  IN signedOrder[c] # <<>> => Same(AloneSignedOrder(sdk, req[c][1], clockRead[c][1]))

\* C21: under every interleaving of two createLimitOrder calls on one SDK
\* instance, no step writes a field of the instance or a variable of the other
\* call, and each call's signed order and payload are the ones the call
\* produces alone from the same request and the same clock reads.
C21_CallsIndependent ==
  /\ [][NoSharedWrites]_vars
  /\ [](\A c \in Calls : EqualsAlone(c))

\* both calls are in flight with their payloads built, from different requests
\* and different clock reads
C21_Witness ==
  /\ pc[1] = "payloadBuilt"
  /\ pc[2] = "payloadBuilt"
  /\ req[1] # req[2]
  /\ clockRead[1] # clockRead[2]
  /\ apiPayload[1][1] # apiPayload[2][1]

\* the position spells YES, or NO, in any mix of upper and lower case
IsYes(position) ==
  /\ position # Undefined
  /\ Len(position) = 3
  /\ position[1] \in {"y", "Y"}
  /\ position[2] \in {"e", "E"}
  /\ position[3] \in {"s", "S"}

IsNo(position) ==
  /\ position # Undefined
  /\ Len(position) = 2
  /\ position[1] \in {"n", "N"}
  /\ position[2] \in {"o", "O"}

\* a token id the metadata holds: a non-empty text
IsTokenId(x) == x # Undefined /\ x # Null /\ x # EmptyStr

ByTopicCalls ==
  { p \in TopicCalls : topicCall[p].req # <<>>
                         /\ topicCall[p].req[1].kind = "createOrderByTopic" }

\* the call threw and never reached createLimitOrder
RaisedWithoutOrder(call) ==
  /\ call.pc = "failed"
  /\ call.out # <<>>
  /\ ~call.out[1].ok
  /\ call.invoked = <<>>

\* C22: createOrderByTopic passes yesToken to createLimitOrder for a position
\* spelling YES and noToken for one spelling NO, in any case; any other
\* position is rejected with no cache read and no fetch made; when the lookup
\* fails, or the metadata lacks the token of the position, the call raises an
\* error and createLimitOrder is never invoked (no order is built, signed or
\* submitted).
C22_TokenByPosition ==
  \A p \in ByTopicCalls :
    LET call == topicCall[p]
        position == call.req[1].position
    IN /\ (~IsYes(position) /\ ~IsNo(position)) =>
            /\ RaisedWithoutOrder(call)
            /\ call.load = <<>>
            /\ call.fetch = <<>>
            /\ call.info = <<>>
       /\ (call.fetch # <<>> /\ ~call.fetch[1].ok) =>
            RaisedWithoutOrder(call)
       /\ (call.pc \in {"done", "failed"} /\ call.info # <<>>) =>
            /\ IsYes(position) =>
                 IF IsTokenId(call.info[1].yesToken)
                   THEN /\ call.pc = "done"
                        /\ call.invoked # <<>>
                        /\ call.invoked[1].tokenId = call.info[1].yesToken
                   ELSE RaisedWithoutOrder(call)
            /\ IsNo(position) =>
                 IF IsTokenId(call.info[1].noToken)
                   THEN /\ call.pc = "done"
                        /\ call.invoked # <<>>
                        /\ call.invoked[1].tokenId = call.info[1].noToken
                   ELSE RaisedWithoutOrder(call)
       /\ call.invoked # <<>> => (call.info # <<>> /\ (IsYes(position) \/ IsNo(position)))

\* one call placed a NO order with the noToken of the metadata, spelled "no";
\* the other found no token for its position and raised
C22_Witness ==
  /\ ByTopicCalls = TopicCalls
  /\ topicCall[1].req[1].position = <<"n", "o">>
  /\ topicCall[1].invoked # <<>>
  /\ topicCall[1].invoked[1].tokenId = <<"8">>
  /\ topicCall[2].pc = "failed"
  /\ topicCall[2].info # <<>>
  /\ topicCall[2].out[1].err = "TokenNotFound"

\* the calls in which getTopicInfo ran: every invoked call but a
\* createOrderByTopic that was rejected for its position
LookupCalls ==
  { p \in TopicCalls :
      /\ topicCall[p].pc \notin {"idle", "loading"}
      /\ ~(/\ topicCall[p].pc = "failed"
           /\ topicCall[p].load = <<>>
           /\ topicCall[p].fetch = <<>>) }

\* the entries a text spells that are younger than 24 hours at the given time
FreshEntries(content, at) ==
  { t[1] : t \in { u \in EntryTexts : /\ u[2] = content
                                      /\ at - u[1].timestamp < 24 * 60 * 60 * 1000 } }

\* the call read a readable entry younger than 24 hours, without forceRefresh
ReadFreshEntry(call) ==
  /\ ~call.req[1].forceRefresh
  /\ call.load # <<>>
  /\ FreshEntries(call.load[1].content, call.load[1].at) # {}

Completed(p) == \E i \in 1..Len(saved) : saved[i] = p

\* getTopicInfo answers from the cache, with no fetch, exactly when it read a
\* fresh entry, and then with that entry's data; otherwise it fetches
CacheOnlyWhenFresh ==
  \A p \in LookupCalls :
    LET call == topicCall[p] IN
      IF ReadFreshEntry(call)
        THEN /\ call.fetch = <<>>
             /\ call.info # <<>>
             /\ \E e \in FreshEntries(call.load[1].content, call.load[1].at) :
                  call.info[1] = e.data
        ELSE \/ call.pc = "fetching"
             \/ /\ call.fetch # <<>>
                /\ call.info # <<>> => (call.fetch[1].ok /\ call.info[1] = call.fetch[1].val)

\* the entry a call saves holds what it fetched and a clock value read during
\* the call
EntryOfFetch ==
  \A p \in LookupCalls :
    LET call == topicCall[p] IN
      call.entry # <<>> =>
        /\ call.fetch[1].ok
        /\ call.entry[1].data = call.fetch[1].val
        /\ call.entry[1].topicId = TopicId
        /\ call.entry[1].timestamp <= now
        /\ call.load # <<>> => call.load[1].at <= call.entry[1].timestamp

\* C23 as stated: getTopicInfo returns the cached data without a fetch if and
\* only if forceRefresh is false and it read a readable entry younger than 24
\* hours; in every other case it fetches and, once it returned a fetched
\* result, it has stored that result with the clock value of the save.
C23_FetchedIsStored ==
  /\ CacheOnlyWhenFresh
  /\ EntryOfFetch
  /\ \A p \in LookupCalls :
       (topicCall[p].info # <<>> /\ topicCall[p].fetch # <<>>) =>
         (topicCall[p].entry # <<>> /\ Completed(p))

\* the file starts with the text of the entry written last, unless a later
\* open has emptied it
LastWriteInFile ==
  saved # <<>> =>
    LET text == JsonStringify(topicCall[saved[Len(saved)]].entry[1]) IN
      \/ cacheFile = EmptyStr
      \/ /\ Len(cacheFile) >= Len(text)
         /\ SubSeq(cacheFile, 1, Len(text)) = text

\* C23, amended: the same, except that the store can fail: getTopicInfo
\* returns the fetched result whether or not the entry reached the file; a
\* call that returned a fetched result has built the entry, with the clock
\* value of the save, and a write that completes puts that entry's text at
\* the start of the file.
C23_FreshOrFetched ==
  /\ CacheOnlyWhenFresh
  /\ EntryOfFetch
  /\ \A p \in LookupCalls :
       (topicCall[p].info # <<>> /\ topicCall[p].fetch # <<>>) =>
         topicCall[p].entry # <<>>
  /\ LastWriteInFile

\* one call answered from an entry half a day old; the other read an entry
\* of exactly 24 hours, fetched, and saved what it fetched
C23_Witness ==
  \E p, q \in LookupCalls :
    /\ topicCall[p].fetch = <<>>
    /\ topicCall[p].out # <<>>
    /\ topicCall[p].out[1].ok
    /\ \E e \in FreshEntries(topicCall[p].load[1].content, topicCall[p].load[1].at) :
         topicCall[p].load[1].at - e.timestamp = 12 * 60 * 60 * 1000
    /\ topicCall[q].load # <<>>
    /\ \E t \in EntryTexts :
         /\ t[2] = topicCall[q].load[1].content
         /\ topicCall[q].load[1].at - t[1].timestamp = 24 * 60 * 60 * 1000
    /\ topicCall[q].out # <<>>
    /\ topicCall[q].out[1].ok
    /\ Completed(q)
    /\ cacheFile = JsonStringify(topicCall[q].entry[1])

\* both calls looked the topic up, found no fresh entry, and fetched
BothFetched ==
  \A p \in TopicCalls :
    /\ p \in LookupCalls
    /\ topicCall[p].fetch # <<>>
    /\ topicCall[p].fetch[1].ok

BothSaved ==
  \A p \in TopicCalls : topicCall[p].out # <<>> /\ Completed(p)

\* C25: when two calls of getTopicInfo both miss the cache and both fetch,
\* each returns the result of its own fetch, and once both have completed
\* their save the cache file holds the entry of the call whose save finished
\* last, whole: never a text made of parts of both.
C25_LastSaveWins ==
  BothFetched =>
    /\ \A p \in TopicCalls :
         topicCall[p].info # <<>> => topicCall[p].info[1] = topicCall[p].fetch[1].val
    /\ BothSaved =>
         cacheFile = JsonStringify(topicCall[saved[Len(saved)]].entry[1])

\* the digits of a decimal text, without its point
DigitsOfDecimal(s) == StripZeroChars(IntPartOf(s) \o FracPartOf(s))

\* a call of calculateAmountWithBigInt on two non-negative decimals whose
\* digits multiply within 31 bits
TruncationCase ==
  /\ args.fn = "calculateAmountWithBigInt"
  /\ ret # <<>>
  /\ IsDecimal(args.shares)
  /\ IsDecimal(args.price)
  /\ Len(DigitsOfDecimal(args.shares)) + Len(DigitsOfDecimal(args.price)) <= 9

\* floor(shares * price * 10^18 / 100) as a numeral without leading zeros,
\* from n = digits(shares) * digits(price) and d = the fractional digit counts
\* summed: n * 10^(16 - d) if d <= 16, floor(n / 10^(d - 16)) otherwise
FloorAt18(n, d) ==
  IF d <= 16 THEN StripZeroChars(NatToString(n) \o Rep("0", 16 - d))
  ELSE IF d - 16 >= 10 THEN EmptyStr
  ELSE StripZeroChars(NatToString(n \div (10 ^ (d - 16))))

\* r * 10^18 as a numeral without leading zeros, for r of at most 18
\* fractional digits
ScaledTo18(r) ==
  StripZeroChars(IntPartOf(r) \o FracPartOf(r) \o Rep("0", 18 - Len(FracPartOf(r))))

====
